---------------------------- MODULE Spec2Model ----------------------------
(***************************************************************************)
(* A model of gosmsg: the SMSG tag/value wire codec (src/smsg.go) and the  *)
(* schema driven decoder and encoder (src/schema_serde.go).                *)
(*                                                                         *)
(* A byte is its ASCII code, a []byte is a sequence of bytes.  A Go error  *)
(* is a string naming it ("none" is the nil error).  An integer value of a *)
(* decoded field is held as its canonical decimal numeral, the text that   *)
(* strconv.FormatInt prints for it, so that 64 bit values stay exact.      *)
(***************************************************************************)
EXTENDS Integers, Sequences, FiniteSets, TLC

VARIABLES buf, it, res, ntags, calls, reg, frame, inmsg, dec, enc, dec2, pc,
          stream, reads, maxMsgSize, callers, schemaFields

vars == <<buf, it, res, ntags, calls, reg, frame, inmsg, dec, enc, dec2, pc,
          stream, reads, maxMsgSize, callers, schemaFields>>

(***************************************************************************)
(* Bounds of the model.                                                    *)
(***************************************************************************)
\* longest byte sequence of the exhaustive iterator inputs
MaxRawLen == 6
\* most builder calls made on one RawSMsg, most encoded messages written
\* to one stream
MaxCalls == 2
\* most nested tags of a generated frame
MaxFrameTags == 2
\* the longest stream given to a RawSMsgReader
MaxStreamLen == 5
\* the number of SetField calls made on a schema
MaxSetFields == 3

(***************************************************************************)
(* Bytes the code names.                                                   *)
(***************************************************************************)
SP == 32
LF == 10
CR == 13
BSL == 92
QM == 63
Ch0 == 48
gConstructor == 32768

Digits == 48..57

\* gHex: the upper case hexadecimal digit of a nibble
gHex(n) ==
    IF n < 10 THEN 48 + n ELSE 55 + n

\* the value of a hexadecimal digit as strconv.ParseUint reads it, -1 for
\* any other byte (both letter cases are digits)
HexVal(c) ==
    IF c \in 48..57 THEN c - 48
    ELSE IF c \in 65..70 THEN c - 55
    ELSE IF c \in 97..102 THEN c - 87
    ELSE -1

appendHexTag(b, v) ==
    b \o << gHex((v \div 4096) % 16), gHex((v \div 256) % 16),
            gHex((v \div 16) % 16), gHex(v % 16) >>

RECURSIVE DecDigits(_)
\* the decimal digits of a natural number
DecDigits(n) ==
    IF n < 10 THEN << 48 + n >> ELSE DecDigits(n \div 10) \o << 48 + (n % 10) >>

\* strconv.AppendInt(b, n, 10) for the lengths the builder writes (n >= 0)
AppendInt(b, n) ==
    b \o DecDigits(n)

(***************************************************************************)
(* Decimal numerals.  A numeral is a sequence of digits; Canon strips the  *)
(* leading zeros; numerals are compared by length and then digit by digit, *)
(* so that no 64 bit quantity is ever computed.                            *)
(***************************************************************************)
RECURSIVE Canon(_)
Canon(ds) ==
    IF Len(ds) > 1 /\ ds[1] = 48 THEN Canon(Tail(ds)) ELSE ds

RECURSIVE LexLT(_, _)
LexLT(a, b) ==
    IF a = <<>> THEN FALSE
    ELSE IF a[1] # b[1] THEN a[1] < b[1]
    ELSE LexLT(Tail(a), Tail(b))

\* a < b for canonical numerals
NumLT(a, b) ==
    \/ Len(a) < Len(b)
    \/ Len(a) = Len(b) /\ LexLT(a, b)

RECURSIVE DecToNat(_)
\* the value of a numeral known to be below 2^31
DecToNat(ds) ==
    IF ds = <<>> THEN 0
    ELSE 10 * DecToNat(SubSeq(ds, 1, Len(ds) - 1)) + (ds[Len(ds)] - 48)

\* 2^bitSize - 1, the largest value strconv.ParseUint accepts
MaxUintNum(bitSize) ==
    CASE bitSize = 8 -> <<50, 53, 53>>
      [] bitSize = 16 -> <<54, 53, 53, 51, 53>>
      [] bitSize = 32 -> <<52, 50, 57, 52, 57, 54, 55, 50, 57, 53>>
      [] OTHER -> <<49, 56, 52, 52, 54, 55, 52, 52, 48, 55,
                    51, 55, 48, 57, 53, 53, 49, 54, 49, 53>>

\* 2^(bitSize-1), the cutoff of strconv.ParseInt
CutoffNum(bitSize) ==
    CASE bitSize = 8 -> <<49, 50, 56>>
      [] bitSize = 16 -> <<51, 50, 55, 54, 56>>
      [] bitSize = 32 -> <<50, 49, 52, 55, 52, 56, 51, 54, 52, 56>>
      [] OTHER -> <<57, 50, 50, 51, 51, 55, 50, 48, 51, 54,
                    56, 53, 52, 55, 55, 53, 56, 48, 56>>

\* strconv.ParseUint(s, 10, bitSize) scans left to right and stops at the
\* first byte that is no digit (syntax) or that takes the value over
\* 2^bitSize - 1 (range): the outcome at the first such position, if any
ParseUintScan(s, bitSize) ==
    LET bad(i) == \/ s[i] \notin Digits
                  \/ NumLT(MaxUintNum(bitSize), Canon(SubSeq(s, 1, i)))
        stops == { i \in 1..Len(s) : bad(i) }
        first == CHOOSE i \in stops : \A j \in stops : i <= j
    IN  IF s = <<>> THEN "syntax"
        ELSE IF stops = {} THEN "none"
        ELSE IF s[first] \notin Digits THEN "syntax"
        ELSE "range"

\* strconv.ParseInt(s, 10, bitSize): [err, neg, num] where num is the
\* canonical numeral of the magnitude (meaningful when err = "none")
ParseInt(s, bitSize) ==
    IF s = <<>> THEN [err |-> "NumError:syntax", neg |-> FALSE, num |-> <<48>>]
    ELSE
      LET neg0 == s[1] = 45
          body == IF s[1] \in {43, 45} THEN Tail(s) ELSE s
          scan == ParseUintScan(body, bitSize)
          un   == Canon(body)
          neg  == neg0 /\ un # <<48>>
      IN  IF scan = "syntax"
            THEN [err |-> "NumError:syntax", neg |-> FALSE, num |-> <<48>>]
          ELSE IF scan = "range"
            THEN [err |-> "NumError:range", neg |-> neg0, num |-> <<48>>]
          ELSE IF ~neg0 /\ ~NumLT(un, CutoffNum(bitSize))
            THEN [err |-> "NumError:range", neg |-> FALSE, num |-> <<48>>]
          ELSE IF neg0 /\ NumLT(CutoffNum(bitSize), un)
            THEN [err |-> "NumError:range", neg |-> TRUE, num |-> <<48>>]
          ELSE [err |-> "none", neg |-> neg, num |-> un]

\* strconv.ParseUint(s, 16, 16) of the four bytes of a tag id
ParseHexTag(s) ==
    IF \E i \in 1..4 : HexVal(s[i]) < 0
      THEN [err |-> "NumError:syntax", v |-> 0]
      ELSE [err |-> "none",
            v |-> 4096 * HexVal(s[1]) + 256 * HexVal(s[2])
                  + 16 * HexVal(s[3]) + HexVal(s[4])]

\* bytes.IndexByte(s, c), counted from 0; -1 when c is not in s
IndexByte(s, c) ==
    IF \E i \in 1..Len(s) : s[i] = c
      THEN (CHOOSE i \in 1..Len(s) : s[i] = c /\ \A j \in 1..(i - 1) : s[j] # c) - 1
      ELSE -1

\* the Go slice s[lo:] and s[:n]
SliceFrom(s, lo) == SubSeq(s, lo + 1, Len(s))
SliceTo(s, n) == SubSeq(s, 1, n)


(***************************************************************************)
(* The builder side of RawSMsg (src/smsg.go).  Each operation is a         *)
(* function from the buffer s.Data to the buffer after the call.           *)
(***************************************************************************)
gVariableLen == -2

\* tag | gConstructor and tag & ^gConstructor on a uint16
OrConstructor(tag) ==
    IF tag >= gConstructor THEN tag ELSE tag + gConstructor

ClearConstructor(tag) ==
    tag % gConstructor

\* addImpl starting from an empty slice instead of s.Data
addImplFromEmpty(s, tag, length, data) ==
    LET s1 == appendHexTag(<<>>, tag)
        s2 == IF length # gVariableLen THEN AppendInt(s1, length) ELSE s1
    IN  (s2 \o << SP >>) \o data

addImpl(s, tag, length, data) ==
    LET s1 == appendHexTag(s, tag)
        s2 == IF length # gVariableLen THEN AppendInt(s1, length) ELSE s1
    IN  (s2 \o << SP >>) \o data

\* Add writing the tag id as given, constructor bit included
AddKeepingConstructorBit(s, tag, data) == addImpl(s, tag, Len(data), data)

Add(s, tag, data) ==
    addImpl(s, ClearConstructor(tag), Len(data), data)

\* AddVariableTag writing the tag id without the constructor bit
AddVariableTagPlain(s, tag) == addImpl(s, tag, gVariableLen, <<>>)

AddVariableTag(s, tag) ==
    addImpl(s, OrConstructor(tag), gVariableLen, <<>>)

\* AddRaw writing a variable-length header in front of r
AddRawVariableLength(s, tag, r) ==
    addImpl(s, OrConstructor(tag), gVariableLen, r)

AddRaw(s, tag, r) ==
    addImpl(s, OrConstructor(tag), Len(r), r)

\* AddTag choosing the header by the Constructor field of the Tag
AddTagByConstructor(s, t) ==
    IF t.Constructor
      THEN addImpl(s, OrConstructor(t.Tag), gVariableLen, t.Data)
      ELSE Add(s, t.Tag, t.Data)

AddTag(s, t) ==
    IF t.VarLen
      THEN addImpl(s, OrConstructor(t.Tag), gVariableLen, t.Data)
      ELSE Add(s, t.Tag, t.Data)

RECURSIVE AddTags(_, _)
AddTags(s, ts) ==
    IF ts = <<>> THEN s ELSE AddTags(AddTag(s, Head(ts)), Tail(ts))

Terminate(s) ==
    addImpl(s, 0, 0, << LF >>)

RECURSIVE EscapeNewlines(_)
\* the loop of AddSafe: CR becomes \r and LF becomes \n
EscapeNewlines(data) ==
    IF data = <<>> THEN <<>>
    ELSE (CASE Head(data) = CR -> << BSL, 114 >>
            [] Head(data) = LF -> << BSL, 110 >>
            [] OTHER -> << Head(data) >>) \o EscapeNewlines(Tail(data))

AddSafe(s, tag, data) ==
    LET r == EscapeNewlines(data) IN addImpl(s, tag, Len(r), r)

(***************************************************************************)
(* The parser side: Iter.NextTag.  A result is                             *)
(*   err   the error returned ("none" for nil, "EOS", ...),                *)
(*   t     the Tag returned,                                               *)
(*   rest  i.data after the call,                                          *)
(*   doff  the offset of t.Data in i.data before the call,                 *)
(*   oob   TRUE when the call indexed or sliced outside i.data, where the  *)
(*         Go runtime panics.                                              *)
(***************************************************************************)
ZeroTag == [Tag |-> 0, Constructor |-> FALSE, VarLen |-> FALSE, Data |-> <<>>]

TagFail(e, t, rest) ==
    [err |-> e, t |-> t, rest |-> rest, doff |-> 0, oob |-> FALSE]

TagPanic(t, rest) ==
    [err |-> "panic", t |-> t, rest |-> rest, doff |-> 0, oob |-> TRUE]

\* the fixed length branch without the jump to the next tag: the scope is
\* left at the length field
FixedLenTagNotSkipping(d, t) ==
    LET dataStart == IndexByte(d, SP)
    IN  IF dataStart = -1 THEN TagFail("ErrShortBuffer", t, d)
        ELSE
          LET p == ParseInt(SliceTo(d, dataStart), 32)
          IN  IF p.err # "none" THEN TagFail(p.err, t, d)
              ELSE IF p.neg THEN TagFail("ErrRange", t, d)
              ELSE
                LET dataLen == DecToNat(p.num)
                IN  IF dataLen > Len(d) - dataStart - 1
                      THEN TagFail("ErrShortBuffer", t, d)
                    ELSE
                      LET data == SliceFrom(d, dataStart + 1)
                      IN  [err |-> "none",
                           t |-> [t EXCEPT !.Data = SliceTo(data, dataLen)],
                           rest |-> d,
                           doff |-> 4 + dataStart + 1,
                           oob |-> FALSE]

\* the fixed length branch, d being i.data after the tag id
FixedLenTag(d, t) ==
    LET dataStart == IndexByte(d, SP)
    IN  IF dataStart = -1 THEN TagFail("ErrShortBuffer", t, d)
        ELSE
          LET p == ParseInt(SliceTo(d, dataStart), 32)
          IN  IF p.err # "none" THEN TagFail(p.err, t, d)
              ELSE IF p.neg THEN TagFail("ErrRange", t, d)
              ELSE
                LET dataLen == DecToNat(p.num)
                IN  IF dataLen > Len(d) - dataStart - 1
                      THEN TagFail("ErrShortBuffer", t, d)
                    ELSE IF dataStart + dataLen + 1 > Len(d)
                      THEN TagFail("ErrShortBuffer", t, d)
                    ELSE
                      LET data == SliceFrom(d, dataStart + 1)
                      IN  IF dataLen > Len(data) THEN TagPanic(t, d)
                          ELSE [err |-> "none",
                                t |-> [t EXCEPT !.Data = SliceTo(data, dataLen)],
                                rest |-> SliceFrom(data, dataLen),
                                doff |-> 4 + dataStart + 1,
                                oob |-> FALSE]

\* the variable length branch leaving the bytes after the space in the scope
VarLenTagKeepingScope(d, t) ==
    [err |-> "none",
     t |-> [t EXCEPT !.Data = SliceFrom(d, 1), !.VarLen = TRUE],
     rest |-> SliceFrom(d, 1),
     doff |-> 5,
     oob |-> FALSE]

\* the variable length branch: the rest of the scope is the tag's data
VarLenTag(d, t) ==
    [err |-> "none",
     t |-> [t EXCEPT !.Data = SliceFrom(d, 1), !.VarLen = TRUE],
     rest |-> <<>>,
     doff |-> 5,
     oob |-> FALSE]

\* the branch on d[0] without the length test before it: d[0] of an empty
\* slice is an index out of range
TagAfterIdUnguarded(d, t) ==
    IF d = <<>> THEN TagPanic(t, d)
    ELSE IF d[1] # SP THEN FixedLenTag(d, t)
    ELSE VarLenTag(d, t)

\* NextTag once the tag id is consumed
TagAfterId(d, t) ==
    IF Len(d) = 0 THEN TagFail("ErrShortBuffer", t, d)
    ELSE IF d[1] # SP THEN FixedLenTag(d, t)
    ELSE VarLenTag(d, t)

\* NextTag reporting a scope of one to three bytes as truncated
NextTagShortIsTruncated(d) ==
    IF Len(d) = 0 THEN TagFail("EOS", ZeroTag, d)
    ELSE IF Len(d) < 4 THEN TagFail("ErrShortBuffer", ZeroTag, d)
    ELSE
      LET p == ParseHexTag(SliceTo(d, 4))
      IN  IF p.err # "none" THEN TagFail(p.err, ZeroTag, d)
          ELSE TagAfterId(SliceFrom(d, 4),
                          [ZeroTag EXCEPT !.Constructor = p.v >= gConstructor,
                                          !.Tag = ClearConstructor(p.v)])

NextTag(d) ==
    IF Len(d) < 4 THEN TagFail("EOS", ZeroTag, d)
    ELSE
      LET p == ParseHexTag(SliceTo(d, 4))
      IN  IF p.err # "none" THEN TagFail(p.err, ZeroTag, d)
          ELSE TagAfterId(SliceFrom(d, 4),
                          [ZeroTag EXCEPT !.Constructor = p.v >= gConstructor,
                                          !.Tag = ClearConstructor(p.v)])

(***************************************************************************)
(* State.                                                                  *)
(*   buf    RawSMsg.Data, built by the builder calls or given as input     *)
(*   calls  the builder calls made on buf, in order (in the scenario of    *)
(*          Schema.SetField, the Fields given to SetField)                 *)
(*   it     the Iter: data is Iter.data, off its offset in buf, depth the  *)
(*          number of SubTags calls that led to it                         *)
(*   res    the result of the last NextTag call on it, with input the      *)
(*          Iter.data the call started from and aoff the offset of         *)
(*          t.Data in buf                                                  *)
(*   ntags  the number of tags it has returned                             *)
(*   pc     the position of the scenario                                   *)
(* reg, frame, inmsg, dec, enc, dec2 belong to the schema scenarios below, *)
(* stream, reads, maxMsgSize to the reader scenarios, callers to the       *)
(* scenario of concurrent calls, schemaFields to that of Schema.SetField.  *)
(***************************************************************************)
AllSeqs(A, n) ==
    UNION { [1..k -> A] : k \in 0..n }

NoRes ==
    [err |-> "init", t |-> ZeroTag, rest |-> <<>>, doff |-> 0, oob |-> FALSE,
     input |-> <<>>, aoff |-> 0]

\* RawSMsg.Tags: an iterator over the whole buffer
Tags(s) ==
    [data |-> s, off |-> 0, depth |-> 0]

\* Tag.SubTags: an iterator over the data of the tag last returned
SubTags(r, i) ==
    [data |-> r.t.Data, off |-> r.aoff, depth |-> i.depth + 1]

\* bytes of the exhaustive inputs: '0' '1' ' ' 'Z' '-'
IterAlphabet == {48, 49, 32, 90, 45}

\* tag ids, length fields, payloads and tails of the composed inputs
IterTagIds == { <<48, 48, 48, 49>>, <<56, 48, 48, 49>>, <<48, 48, 48, 48>>, <<97, 98, 67, 68>>, <<48, 48, 71, 49>> }

IterLenFields ==
    { <<>>, <<48>>, <<49>>, <<51>>, <<53>>, <<43, 51>>, <<45, 49>>, <<48, 51>>, <<49, 120>>,
      <<50, 49, 52, 55, 52, 56, 51, 54, 52, 55>>, <<50, 49, 52, 55, 52, 56, 51, 54, 52, 56>>, <<52, 50, 57, 52, 57, 54, 55, 50, 57, 54>>, <<57, 57, 57, 57, 57, 57, 57, 57, 57, 57, 57, 57, 57, 57, 57, 57, 57, 57, 57, 57>> }

IterPayloads == { <<>>, <<97, 98, 99>>, <<97, 98, 99, 100, 101>>, <<48, 48, 48, 50, 49, 32, 120>> }

IterTails == { <<>>, <<48, 48, 48, 50, 48, 32>>, <<48, 48, 48, 48, 48, 32, 10>> }

IterInputs ==
    AllSeqs(IterAlphabet, MaxRawLen)
    \cup { (((id \o l) \o sp) \o p) \o tl :
             id \in IterTagIds, l \in IterLenFields, sp \in { <<>>, << SP >> },
             p \in IterPayloads, tl \in IterTails }

SchemaIdle == <<>>

\* no schema, decoder or encoder in the scenario
SerdeIdle ==
    /\ reg = SchemaIdle /\ frame = <<>> /\ inmsg = SchemaIdle
    /\ dec = SchemaIdle /\ enc = SchemaIdle /\ dec2 = SchemaIdle

\* no RawSMsgReader in the scenario
ReaderIdle == stream = <<>> /\ reads = <<>> /\ maxMsgSize = 0

\* no concurrent callers in the scenario
CallersIdle == callers = <<>>

\* no Schema under SetField in the scenario
SchemaFieldsIdle == schemaFields = <<>>

InitIter ==
    /\ buf \in IterInputs
    /\ calls = <<>>
    /\ it = Tags(buf)
    /\ res = NoRes
    /\ ntags = 0
    /\ pc = "iter"
    /\ reg = SchemaIdle /\ frame = <<>> /\ inmsg = SchemaIdle
    /\ dec = SchemaIdle /\ enc = SchemaIdle /\ dec2 = SchemaIdle
    /\ ReaderIdle
    /\ CallersIdle
    /\ SchemaFieldsIdle

\* one call of it.NextTag()
NextTagStep ==
    /\ pc = "iter"
    /\ LET r == NextTag(it.data)
       IN  /\ res' = [err |-> r.err, t |-> r.t, rest |-> r.rest, doff |-> r.doff,
                      oob |-> r.oob, input |-> it.data, aoff |-> it.off + r.doff]
           /\ it' = [it EXCEPT !.data = r.rest,
                               !.off = it.off + (Len(it.data) - Len(r.rest))]
           /\ ntags' = IF r.err = "none" THEN ntags + 1 ELSE ntags
    /\ UNCHANGED <<schemaFields, callers, stream, reads, maxMsgSize, buf, calls, pc, reg, frame, inmsg, dec, enc, dec2>>

\* it = t.SubTags() on the tag last returned
SubTagsStep ==
    /\ pc = "iter"
    /\ res.err = "none"
    /\ it' = SubTags(res, it)
    /\ res' = NoRes
    /\ ntags' = 0
    /\ UNCHANGED <<schemaFields, callers, stream, reads, maxMsgSize, buf, calls, pc, reg, frame, inmsg, dec, enc, dec2>>

NextIter ==
    \/ NextTagStep
    \/ SubTagsStep

SpecIter == InitIter /\ [][NextIter]_vars

(***************************************************************************)
(* The loop over one iterator: NextTag is called until it returns EOS or   *)
(* an error, as the loop of Decode does (src/schema_serde.go).  The loop   *)
(* is sequential code, so its next call is taken while there is one.       *)
(***************************************************************************)
\* the pieces the buffers are made of: "00010 ", "00023 abc", "8001 ",
\* "00011 x", "0004-1 ", "0005", "ZZZZ1 a", "0 " and "00029 ab"
LoopPieces ==
    { <<48, 48, 48, 49, 48, 32>>, <<48, 48, 48, 50, 51, 32, 97, 98, 99>>, <<56, 48, 48, 49, 32>>, <<48, 48, 48, 49, 49, 32, 120>>, <<48, 48, 48, 52, 45, 49, 32>>, <<48, 48, 48, 53>>,
      <<90, 90, 90, 90, 49, 32, 97>>, <<48, 32>>, <<48, 48, 48, 50, 57, 32, 97, 98>> }

RECURSIVE Concat(_)
\* the sequences of ps one after the other
Concat(ps) == IF ps = <<>> THEN <<>> ELSE Head(ps) \o Concat(Tail(ps))

\* the buffers iterated: of no, one and two pieces
LoopInputs == { Concat(ps) : ps \in AllSeqs(LoopPieces, 2) }

InitLoop ==
    /\ buf = <<>>
    /\ calls = <<>>
    /\ it = Tags(<<>>)
    /\ res = NoRes
    /\ ntags = 0
    /\ pc = "start"
    /\ SerdeIdle
    /\ ReaderIdle
    /\ CallersIdle
    /\ SchemaFieldsIdle

\* it := r.Tags() on the buffer given
LoopTagsStep ==
    /\ pc = "start"
    /\ \E b \in LoopInputs :
         /\ buf' = b
         /\ it' = Tags(b)
    /\ pc' = "iter"
    /\ UNCHANGED <<schemaFields, callers, stream, reads, maxMsgSize, res, ntags, calls,
                   reg, frame, inmsg, dec, enc, dec2>>

LoopEnded == res.err \notin {"init", "none"}

\* for t, err := it.NextTag(); err != EOS; t, err = it.NextTag() {
\*     if err != nil { return nil, err } ... }
LoopStep ==
    /\ ~LoopEnded
    /\ NextTagStep

NextLoop ==
    \/ LoopTagsStep
    \/ LoopStep

SpecLoop == InitLoop /\ [][NextLoop]_vars /\ WF_vars(LoopStep)

(***************************************************************************)
(* Building a RawSMsg and then iterating it.                               *)
(***************************************************************************)
\* 0x0000 0x0010 0x1234 0x7FFF 0x8000 0x9019 0xFFFF
BuildTagIds == {0, 16, 4660, 32767, 32768, 36889, 65535}

\* "" "8" "Hello" " 1" "0001 "
BuildPayloads == { <<>>, <<56>>, <<72, 101, 108, 108, 111>>, <<32, 49>>, <<48, 48, 48, 49, 32>> }

InitCodec ==
    /\ buf = <<>>
    /\ calls = <<>>
    /\ it = Tags(<<>>)
    /\ res = NoRes
    /\ ntags = 0
    /\ pc = "build"
    /\ reg = SchemaIdle /\ frame = <<>> /\ inmsg = SchemaIdle
    /\ dec = SchemaIdle /\ enc = SchemaIdle /\ dec2 = SchemaIdle
    /\ ReaderIdle
    /\ CallersIdle
    /\ SchemaFieldsIdle

\* s.Add(tag, data)
AddStep ==
    /\ pc = "build"
    /\ Len(calls) < MaxCalls
    /\ \E tag \in BuildTagIds, data \in BuildPayloads :
         /\ buf' = Add(buf, tag, data)
         /\ calls' = Append(calls, [op |-> "Add", tag |-> tag, data |-> data])
    /\ UNCHANGED <<schemaFields, callers, stream, reads, maxMsgSize, it, res, ntags, pc, reg, frame, inmsg, dec, enc, dec2>>

\* it := s.Tags()
TagsStep ==
    /\ pc = "build"
    /\ pc' = "iter"
    /\ it' = Tags(buf)
    /\ UNCHANGED <<schemaFields, callers, stream, reads, maxMsgSize, buf, calls, res, ntags, reg, frame, inmsg, dec, enc, dec2>>

NextCodec ==
    \/ AddStep
    \/ TagsStep
    \/ NextTagStep
    \/ SubTagsStep

SpecCodec == InitCodec /\ [][NextCodec]_vars

(***************************************************************************)
(* Building a RawSMsg with every builder operation, then iterating it.     *)
(* calls records each call with its arguments.                             *)
(***************************************************************************)
\* 0x0010 0x9019
BuilderTagIds == {16, 36889}

\* "" "Hello"
BuilderPayloads == { <<>>, <<72, 101, 108, 108, 111>> }

\* "ab" "a\nb" "\r\n"
SafePayloads == { <<97, 98>>, <<97, 10, 98>>, <<13, 10>> }

\* the Add calls an inner message is built with: Add(0x0010, "8"),
\* Add(0x9019, "Hello"), Add(0x0001, "")
InnerAdds ==
    { [tag |-> 16, data |-> <<56>>], [tag |-> 36889, data |-> <<72, 101, 108, 108, 111>>],
      [tag |-> 1, data |-> <<>>] }

\* the inner messages: of no, one and two Add calls
InnerMessages ==
    { adds \in AllSeqs(InnerAdds, 2) :
        Len(adds) = 2 => adds[1].tag < adds[2].tag }

RECURSIVE BuildInner(_, _)
\* the RawSMsg.Data after the Add calls adds on the buffer s
BuildInner(s, adds) ==
    IF adds = <<>> THEN s
    ELSE BuildInner(Add(s, Head(adds).tag, Head(adds).data), Tail(adds))

\* the Tags given to AddTag and AddTags
BuilderTags ==
    { [Tag |-> 16, Constructor |-> FALSE, VarLen |-> FALSE, Data |-> <<56>>],
      [Tag |-> 4121, Constructor |-> TRUE, VarLen |-> TRUE, Data |-> <<48, 48, 49, 48, 49, 32, 56>>],
      [Tag |-> 4121, Constructor |-> TRUE, VarLen |-> FALSE, Data |-> <<48, 48, 49, 48, 49, 32, 56>>],
      [Tag |-> 4121, Constructor |-> FALSE, VarLen |-> TRUE, Data |-> <<48, 48, 49, 48, 49, 32, 56>>] }

\* the tag lists: of no, one and two Tags, a fixed-length Tag first and a
\* Tag with the Constructor field set second
BuilderTagLists ==
    { ts \in AllSeqs(BuilderTags, 2) :
        Len(ts) = 2 => ~ts[1].VarLen /\ ts[1] # ts[2] /\ ts[2].Constructor }

InitBuilder ==
    /\ buf = <<>>
    /\ calls = <<>>
    /\ it = Tags(<<>>)
    /\ res = NoRes
    /\ ntags = 0
    /\ pc = "build"
    /\ SerdeIdle
    /\ ReaderIdle
    /\ CallersIdle
    /\ SchemaFieldsIdle

\* the frame of a builder call: the buffer becomes b, the call c is recorded
BuilderCall(b, c) ==
    /\ pc = "build"
    /\ Len(calls) < MaxCalls
    /\ buf' = b
    /\ calls' = Append(calls, c)
    /\ UNCHANGED <<schemaFields, it, res, ntags, pc, reg, frame, inmsg, dec, enc, dec2,
                   stream, reads, maxMsgSize, callers>>

\* s.Add(tag, data)
CallAdd ==
    \E tag \in BuilderTagIds, data \in BuilderPayloads :
      BuilderCall(Add(buf, tag, data), [op |-> "Add", tag |-> tag, data |-> data])

\* s.AddSafe(tag, data)
CallAddSafe ==
    \E tag \in BuilderTagIds, data \in SafePayloads :
      BuilderCall(AddSafe(buf, tag, data), [op |-> "AddSafe", tag |-> tag, data |-> data])

\* s.AddVariableTag(tag)
CallAddVariableTag ==
    \E tag \in BuilderTagIds :
      BuilderCall(AddVariableTag(buf, tag), [op |-> "AddVariableTag", tag |-> tag])

\* s.AddRaw(tag, &r), r built by the Add calls inner
CallAddRaw ==
    \E tag \in BuilderTagIds, inner \in InnerMessages :
      BuilderCall(AddRaw(buf, tag, BuildInner(<<>>, inner)),
                  [op |-> "AddRaw", tag |-> tag, inner |-> inner,
                   data |-> BuildInner(<<>>, inner)])

\* s.AddTag(&t)
CallAddTag ==
    \E t \in BuilderTags :
      BuilderCall(AddTag(buf, t), [op |-> "AddTag", t |-> t])

\* s.AddTags(ts)
CallAddTags ==
    \E ts \in BuilderTagLists :
      BuilderCall(AddTags(buf, ts), [op |-> "AddTags", ts |-> ts])

\* s.Terminate()
CallTerminate ==
    BuilderCall(Terminate(buf), [op |-> "Terminate"])

NextBuilder ==
    \/ CallAdd
    \/ CallAddSafe
    \/ CallAddVariableTag
    \/ CallAddRaw
    \/ CallAddTag
    \/ CallAddTags
    \/ CallTerminate
    \/ TagsStep
    \/ NextTagStep
    \/ SubTagsStep

SpecBuilder == InitBuilder /\ [][NextBuilder]_vars

(***************************************************************************)
(* The schema layer (src/schema_serde.go, src/schema.go).                  *)
(*                                                                         *)
(* A Field is [Name, Type, Nullable, HasTag, SmsgTag, EnumValues]: HasTag  *)
(* and SmsgTag are Metadata["smsg_tag"], EnumValues is                     *)
(* Metadata["enum_values"].  A Schema is [RecordType, Fields].             *)
(*                                                                         *)
(* A field value (Go's any) is [k, neg, v]: k the dynamic type ("nil" the  *)
(* nil interface, "nilbytes" a nil []byte), v the bytes of a string or     *)
(* []byte, the decimal magnitude of an integer (neg its sign), or <<1>>,   *)
(* <<0>> for true, false.                                                  *)
(***************************************************************************)
Val(k, neg, v) == [k |-> k, neg |-> neg, v |-> v]

NilVal == Val("nil", FALSE, <<>>)

\* the Go type a value of each DataType must have in Encode
GoTypeOf(type) ==
    CASE type = "int8" -> "int8"
      [] type = "int16" -> "int16"
      [] type = "int32" -> "int32"
      [] type = "int64" -> "int64"
      [] type = "bool" -> "bool"
      [] type = "string" -> "string"
      [] type = "enum" -> "string"
      [] type = "binary" -> "[]byte"
      [] OTHER -> "none"

\* the %T of a value
GoType(val) ==
    IF val.k \in {"bytes", "nilbytes"} THEN "[]byte" ELSE val.k

EmptyFields == [n \in {} |-> NilVal]

\* m[name] = val on a Go map
MapSet(m, name, val) ==
    [n \in (DOMAIN m) \cup {name} |-> IF n = name THEN val ELSE m[n]]

extractSmsgTag(field) ==
    IF ~field.HasTag
      THEN [err |-> "missing smsg_tag", tag |-> 0]
      ELSE [err |-> "none", tag |-> field.SmsgTag % 65536]

\* utf8: the length of the valid encoding that starts s, 0 when s starts
\* with an invalid byte (one and two byte encodings; the inputs of the model
\* hold no lead byte of a longer one)
RuneLen(s) ==
    IF s[1] < 128 THEN 1
    ELSE IF s[1] \in 194..223 /\ Len(s) >= 2 /\ s[2] \in 128..191 THEN 2
    ELSE 0

RECURSIVE ToValidUTF8(_, _)
\* strings.ToValidUTF8(s, "?"): every run of invalid bytes becomes one '?';
\* inrun: the byte before s was invalid
ToValidUTF8(s, inrun) ==
    IF s = <<>> THEN <<>>
    ELSE IF RuneLen(s) = 0
      THEN (IF inrun THEN <<>> ELSE << QM >>) \o ToValidUTF8(Tail(s), TRUE)
    ELSE SubSeq(s, 1, RuneLen(s))
         \o ToValidUTF8(SubSeq(s, RuneLen(s) + 1, Len(s)), FALSE)

coerceToString(fd, val) ==
    [err |-> "none", val |-> Val("string", FALSE, ToValidUTF8(val, FALSE))]

\* the four coerceToIntN functions: strconv.ParseInt(val, 10, bitSize)
coerceToInt(bitSize, kind, val) ==
    LET p == ParseInt(val, bitSize)
    IN  [err |-> p.err, val |-> Val(kind, p.neg, p.num)]

\* coerceToInt8 parsing with the bit size of int64
coerceToInt8Wide(fd, val) == coerceToInt(64, "int8", val)

coerceToInt8(fd, val) == coerceToInt(8, "int8", val)
coerceToInt16(fd, val) == coerceToInt(16, "int16", val)
coerceToInt32(fd, val) == coerceToInt(32, "int32", val)
coerceToInt64(fd, val) == coerceToInt(64, "int64", val)

coerceToBool(fd, val) ==
    [err |-> "none",
     val |-> Val("bool", FALSE, IF val[1] # Ch0 THEN <<1>> ELSE <<0>>)]

\* coerceToEnum without the lookup in enumValues
coerceToEnumUnchecked(fd, val) ==
    [err |-> "none", val |-> Val("string", FALSE, val)]

coerceToEnum(fd, val) ==
    IF val \notin fd.enumValues
      THEN [err |-> "invalid enum value", val |-> Val("string", FALSE, <<>>)]
      ELSE [err |-> "none", val |-> Val("string", FALSE, val)]

coerceToBytes(fd, val) ==
    [err |-> "none", val |-> Val("bytes", FALSE, val)]

\* the types newFieldData has a coerceFunc for
CoercibleTypes == {"enum", "int8", "int16", "int32", "int64", "bool", "binary", "string"}

\* fd.coerceFunc(fd, val), the function newFieldData chose for the type
ApplyCoerce(fd, val) ==
    CASE fd.type = "enum" -> coerceToEnum(fd, val)
      [] fd.type = "int8" -> coerceToInt8(fd, val)
      [] fd.type = "int16" -> coerceToInt16(fd, val)
      [] fd.type = "int32" -> coerceToInt32(fd, val)
      [] fd.type = "int64" -> coerceToInt64(fd, val)
      [] fd.type = "bool" -> coerceToBool(fd, val)
      [] fd.type = "binary" -> coerceToBytes(fd, val)
      [] OTHER -> coerceToString(fd, val)

newFieldData(f) ==
    LET x == extractSmsgTag(f)
    IN  IF x.err # "none" THEN [err |-> x.err]
        ELSE IF f.Type \notin CoercibleTypes THEN [err |-> "not implemented"]
        ELSE [err |-> "none",
              isNullable |-> f.Nullable,
              isString |-> f.Type = "string",
              smsgTag |-> x.tag,
              name |-> f.Name,
              enumValues |-> IF f.Type = "enum" THEN f.EnumValues ELSE {},
              type |-> f.Type]

newSchemaCoercion(s) ==
    LET x == extractSmsgTag(s.RecordType)
        fds == [i \in 1..Len(s.Fields) |-> newFieldData(s.Fields[i])]
    IN  IF x.err # "none" THEN [err |-> x.err]
        ELSE IF \E i \in 1..Len(fds) : fds[i].err # "none"
          THEN [err |-> "field error"]
        ELSE [err |-> "none",
              recordTypeName |-> s.RecordType.Name,
              recordTypeTag |-> x.tag,
              fields |-> fds]

\* NewSchemaDecoder: coercers maps a record tag to the schemaCoercion of the
\* last schema of the list that has it
NewSchemaDecoder(schemas) ==
    LET cs == [i \in 1..Len(schemas) |-> newSchemaCoercion(schemas[i])]
    IN  IF \E i \in 1..Len(cs) : cs[i].err # "none"
          THEN [err |-> "schema error", coercers |-> EmptyFields]
          ELSE [err |-> "none",
                coercers |->
                  [t \in { cs[i].recordTypeTag : i \in 1..Len(cs) } |->
                     cs[CHOOSE i \in 1..Len(cs) :
                          /\ cs[i].recordTypeTag = t
                          /\ \A j \in (i + 1)..Len(cs) : cs[j].recordTypeTag # t]]]

\* NewSchemaEncoder: schemas maps a record type name to the last schema of
\* the list that has it; only the record type's smsg_tag is verified
NewSchemaEncoder(schemas) ==
    IF \E i \in 1..Len(schemas) : extractSmsgTag(schemas[i].RecordType).err # "none"
      THEN [err |-> "schema error", schemas |-> EmptyFields]
      ELSE [err |-> "none",
            schemas |->
              [n \in { schemas[i].RecordType.Name : i \in 1..Len(schemas) } |->
                 schemas[CHOOSE i \in 1..Len(schemas) :
                           /\ schemas[i].RecordType.Name = n
                           /\ \A j \in (i + 1)..Len(schemas) :
                                schemas[j].RecordType.Name # n]]]

(***************************************************************************)
(* Decode.  A result is [err, errField, errTag, nilmsg, msg]: errField the *)
(* field the error message names, errTag the tag of a MissingSchemaError,  *)
(* nilmsg TRUE when the *DecodedMessage returned is nil.                   *)
(***************************************************************************)
NoMsg == [RecordType |-> "", RecordTag |-> 0, Fields |-> EmptyFields]

DecodeNil(e) ==
    [err |-> e, errField |-> "", errTag |-> 0, nilmsg |-> TRUE, msg |-> NoMsg]

\* the present-but-empty test written without the ok of the map lookup
ResolveFieldIgnoringOk(fd, ok, rawVal) ==
    IF ~ok \/ Len(rawVal) = 0
      THEN IF Len(rawVal) = 0 /\ fd.isString
             THEN [err |-> "none", val |-> Val("string", FALSE, <<>>)]
           ELSE IF fd.isNullable THEN [err |-> "none", val |-> NilVal]
           ELSE [err |-> "FieldMissing", val |-> NilVal]
      ELSE LET c == ApplyCoerce(fd, rawVal)
           IN  IF c.err # "none" THEN [err |-> "ConversionError", val |-> NilVal]
               ELSE c

\* one round of the loop of coerce: the value of field fd, given the result
\* ok, rawVal of the lookup tags[fd.smsgTag]
ResolveField(fd, ok, rawVal) ==
    IF ~ok \/ Len(rawVal) = 0
      THEN IF Len(rawVal) = 0 /\ ok /\ fd.isString
             THEN [err |-> "none", val |-> Val("string", FALSE, <<>>)]
           ELSE IF fd.isNullable THEN [err |-> "none", val |-> NilVal]
           ELSE [err |-> "FieldMissing", val |-> NilVal]
      ELSE LET c == ApplyCoerce(fd, rawVal)
           IN  IF c.err # "none" THEN [err |-> "ConversionError", val |-> NilVal]
               ELSE c

RECURSIVE coerceFieldsStoringFailed(_, _, _, _)
\* the loop of coerce storing nil for the field it fails at
coerceFieldsStoringFailed(sc, tags, i, msg) ==
    IF i > Len(sc.fields)
      THEN [err |-> "none", errField |-> "", errTag |-> 0, nilmsg |-> FALSE, msg |-> msg]
      ELSE
        LET fd == sc.fields[i]
            ok == fd.smsgTag \in DOMAIN tags
            r  == ResolveField(fd, ok, IF ok THEN tags[fd.smsgTag] ELSE <<>>)
            m2 == [msg EXCEPT !.Fields = MapSet(msg.Fields, fd.name, r.val)]
        IN  IF r.err # "none"
              THEN [err |-> r.err, errField |-> fd.name, errTag |-> 0,
                    nilmsg |-> FALSE, msg |-> m2]
              ELSE coerceFieldsStoringFailed(sc, tags, i + 1, m2)

RECURSIVE coerceFields(_, _, _, _)
\* the loop of coerce from field i on, msg being the message built so far
coerceFields(sc, tags, i, msg) ==
    IF i > Len(sc.fields)
      THEN [err |-> "none", errField |-> "", errTag |-> 0, nilmsg |-> FALSE, msg |-> msg]
      ELSE
        LET fd == sc.fields[i]
            ok == fd.smsgTag \in DOMAIN tags
            r  == ResolveField(fd, ok, IF ok THEN tags[fd.smsgTag] ELSE <<>>)
        IN  IF r.err # "none"
              THEN [err |-> r.err, errField |-> fd.name, errTag |-> 0,
                    nilmsg |-> FALSE, msg |-> msg]
              ELSE coerceFields(sc, tags, i + 1,
                     [msg EXCEPT !.Fields = MapSet(msg.Fields, fd.name, r.val)])

coerce(d, recordType, tags) ==
    IF recordType.Tag \notin DOMAIN d.coercers
      THEN [err |-> "MissingSchemaError", errField |-> "", errTag |-> recordType.Tag,
            nilmsg |-> TRUE, msg |-> NoMsg]
      ELSE LET sc == d.coercers[recordType.Tag]
           IN  coerceFields(sc, tags, 1,
                 [RecordType |-> sc.recordTypeName,
                  RecordTag |-> recordType.Tag,
                  Fields |-> EmptyFields])

RECURSIVE ScanTagsPastTerminator(_, _)
\* the loop of Decode without its break at the terminator tag
ScanTagsPastTerminator(data, tags) ==
    LET r == NextTag(data)
    IN  IF r.err = "EOS" THEN [err |-> "none", tags |-> tags]
        ELSE IF r.err # "none" THEN [err |-> r.err, tags |-> tags]
        ELSE ScanTagsPastTerminator(r.rest, MapSet(tags, r.t.Tag, r.t.Data))

RECURSIVE ScanTagsFirstWins(_, _)
\* the loop of Decode keeping the data of the first tag of an id
ScanTagsFirstWins(data, tags) ==
    LET r == NextTag(data)
    IN  IF r.err = "EOS" THEN [err |-> "none", tags |-> tags]
        ELSE IF r.err # "none" THEN [err |-> r.err, tags |-> tags]
        ELSE IF r.t.Tag = 0 THEN [err |-> "none", tags |-> tags]
        ELSE ScanTagsFirstWins(r.rest,
               IF r.t.Tag \in DOMAIN tags THEN tags
               ELSE MapSet(tags, r.t.Tag, r.t.Data))

RECURSIVE ScanTags(_, _)
\* the loop of Decode over the record tag's nested tags: [err, tags], tags
\* the scratch map from tag id to data
ScanTags(data, tags) ==
    LET r == NextTag(data)
    IN  IF r.err = "EOS" THEN [err |-> "none", tags |-> tags]
        ELSE IF r.err # "none" THEN [err |-> r.err, tags |-> tags]
        ELSE IF r.t.Tag = 0 THEN [err |-> "none", tags |-> tags]
        ELSE ScanTags(r.rest, MapSet(tags, r.t.Tag, r.t.Data))

Decode(d, r) ==
    LET first == NextTag(r)
    IN  IF first.err # "none" THEN DecodeNil(first.err)
        ELSE LET scan == ScanTags(first.t.Data, EmptyFields)
             IN  IF scan.err # "none" THEN DecodeNil(scan.err)
                 ELSE coerce(d, first.t, scan.tags)

(***************************************************************************)
(* Encode.  encodeValue gives [err, nildata, data], nildata TRUE when the  *)
(* []byte returned is nil.  An Encode result is [err, errField, nilraw,    *)
(* raw]: errField the field the error message names, nilraw TRUE when the  *)
(* *RawSMsg returned is nil, raw its Data otherwise.                       *)
(***************************************************************************)
\* strconv.FormatInt(v, 10) of an integer value
encodeInt(val) ==
    (IF val.neg THEN << 45 >> ELSE <<>>) \o val.v

encodeBool(val) ==
    IF val.v = <<1>> THEN << 49 >> ELSE << Ch0 >>

encodeString(val) == val.v

encodeBytes(val) == val.v

EncOk(data, isnil) == [err |-> "none", nildata |-> isnil, data |-> data]

EncErr(e) == [err |-> e, nildata |-> TRUE, data |-> <<>>]

encodeValue(field, value) ==
    IF value.k = "nil"
      THEN IF field.Nullable THEN EncOk(<<>>, TRUE) ELSE EncErr("NilNotNullable")
    ELSE IF GoTypeOf(field.Type) = "none" THEN EncErr("NotImplemented")
    ELSE IF GoType(value) # GoTypeOf(field.Type) THEN EncErr("TypeMismatch")
    ELSE CASE field.Type \in {"int8", "int16", "int32", "int64"} ->
                EncOk(encodeInt(value), FALSE)
           [] field.Type = "bool" -> EncOk(encodeBool(value), FALSE)
           [] field.Type = "string" -> EncOk(encodeString(value), FALSE)
           [] field.Type = "binary" ->
                EncOk(encodeBytes(value), value.k = "nilbytes")
           [] OTHER ->
                IF value.v \notin field.EnumValues THEN EncErr("InvalidEnum")
                ELSE EncOk(encodeString(value), FALSE)

\* one round of the loop of Encode: [err, inner], inner the inner message
\* after the round
EncodeField(field, fields, inner) ==
    LET exists == field.Name \in DOMAIN fields
        value  == IF exists THEN fields[field.Name] ELSE NilVal
    IN  IF ~exists \/ value.k = "nil"
          THEN IF ~field.Nullable
                 THEN [err |-> "RequiredFieldMissing", inner |-> inner]
                 ELSE [err |-> "none", inner |-> inner]
          ELSE
            LET ev == encodeValue(field, value)
                x  == extractSmsgTag(field)
            IN  IF ev.err # "none" THEN [err |-> ev.err, inner |-> inner]
                ELSE IF ev.nildata THEN [err |-> "none", inner |-> inner]
                ELSE IF x.err # "none" THEN [err |-> "FieldTagMissing", inner |-> inner]
                ELSE [err |-> "none", inner |-> Add(inner, x.tag, ev.data)]

RECURSIVE encodeFields(_, _, _, _)
\* the loop of Encode from field i on: [err, errField, inner]
encodeFields(schema, fields, i, inner) ==
    IF i > Len(schema.Fields)
      THEN [err |-> "none", errField |-> "", inner |-> inner]
      ELSE LET r == EncodeField(schema.Fields[i], fields, inner)
           IN  IF r.err # "none"
                 THEN [err |-> r.err, errField |-> schema.Fields[i].Name,
                       inner |-> inner]
                 ELSE encodeFields(schema, fields, i + 1, r.inner)

EncodeNil(e, f) ==
    [err |-> e, errField |-> f, nilraw |-> TRUE, raw |-> <<>>]

\* the schema whose record tag is the message's RecordTag
LookupSchemaByTag(e, msg) ==
    LET hit == { n \in DOMAIN e.schemas :
                   extractSmsgTag(e.schemas[n].RecordType).tag = msg.RecordTag }
    IN  IF hit = {} THEN [ok |-> FALSE, schema |-> NoMsg]
        ELSE [ok |-> TRUE, schema |-> e.schemas[CHOOSE n \in hit : TRUE]]

\* schema, ok := e.schemas[msg.RecordType]
LookupSchema(e, msg) ==
    IF msg.RecordType \in DOMAIN e.schemas
      THEN [ok |-> TRUE, schema |-> e.schemas[msg.RecordType]]
      ELSE [ok |-> FALSE, schema |-> NoMsg]

Encode(e, msg) ==
    LET l == LookupSchema(e, msg)
    IN  IF ~l.ok THEN EncodeNil("NoSchema", "")
        ELSE
          LET x == extractSmsgTag(l.schema.RecordType)
          IN  IF x.err # "none" THEN EncodeNil("SchemaError", "")
              ELSE IF x.tag # msg.RecordTag THEN EncodeNil("TagMismatch", "")
              ELSE
                LET f == encodeFields(l.schema, msg.Fields, 1, <<>>)
                IN  IF f.err # "none" THEN EncodeNil(f.err, f.errField)
                    ELSE [err |-> "none", errField |-> "", nilraw |-> FALSE,
                          raw |-> Terminate(AddVariableTag(<<>>, msg.RecordTag)
                                            \o f.inner)]

(***************************************************************************)
(* The schema scenarios.                                                   *)
(*   reg    the schemas given to NewSchemaDecoder and NewSchemaEncoder and *)
(*          the decoder and encoder they returned                          *)
(*   frame  the RawSMsg.Data given to Decode                               *)
(*   dec    the result of Decode(frame)                                    *)
(*   inmsg  the message given to Encode                                    *)
(*   enc    the result of Encode(inmsg)                                    *)
(*   dec2   the result of Decode of the encoded output                     *)
(***************************************************************************)
\* wire tags of the schemas of the tests: 0x1019, 0x10AA, 0x1033, 0x1000,
\* 0x1001, and 0x1020 that no schema has as record tag
TagSip == 4121
TagNi == 4266
TagAnr == 4147
TagTest == 4096
TagTestField == 4097
TagUnregistered == 4128

\* "A" "B"
EnumValues == { <<65>>, <<66>> }

MkField(name, type, nullable, hasTag, tag) ==
    [Name |-> name, Type |-> type, Nullable |-> nullable, HasTag |-> hasTag,
     SmsgTag |-> tag, EnumValues |-> IF type = "enum" THEN EnumValues ELSE {}]

MkRecordType(name, tag) ==
    [Name |-> name, Type |-> "record", Nullable |-> FALSE, HasTag |-> TRUE,
     SmsgTag |-> tag, EnumValues |-> {}]

\* a schema "sip" of two fields, ni and anr
SipSchema(f1, f2) ==
    [RecordType |-> MkRecordType("sip", TagSip), Fields |-> <<f1, f2>>]

TestSchema ==
    [RecordType |-> MkRecordType("test", TagTest),
     Fields |-> << MkField("testfield", "string", TRUE, TRUE, TagTestField) >>]

FieldTypes == {"string", "int8", "bool", "enum", "binary"}

\* the schema lists: every type and nullability for ni next to three kinds
\* of anr on its own wire tag, and three pairs of fields sharing one wire tag
SchemaLists ==
    { << SipSchema(MkField("ni", t1, n1, TRUE, TagNi),
                   MkField("anr", k2[1], k2[2], TRUE, TagAnr)), TestSchema >> :
        t1 \in FieldTypes, n1 \in BOOLEAN,
        k2 \in { <<"string", TRUE>>, <<"int8", FALSE>>, <<"binary", FALSE>> } }
    \cup
    { << SipSchema(MkField("ni", k[1], k[2], TRUE, TagAnr),
                   MkField("anr", k[3], k[4], TRUE, TagAnr)), TestSchema >> :
        k \in { <<"string", TRUE, "int8", TRUE>>,
                <<"int8", TRUE, "string", TRUE>>,
                <<"string", FALSE, "bool", FALSE>> } }

\* a schema list whose field anr has no smsg_tag: NewSchemaDecoder refuses
\* it, NewSchemaEncoder accepts it; and one whose record type has none: both
\* refuse it
UntaggedSchemaLists ==
    { << SipSchema(MkField("ni", "int8", TRUE, TRUE, TagNi),
                   MkField("anr", "string", TRUE, FALSE, 0)), TestSchema >>,
      << [RecordType |-> MkField("sip", "record", FALSE, FALSE, 0),
          Fields |-> << MkField("ni", "int8", TRUE, TRUE, TagNi) >>], TestSchema >> }

Registry(schemas) ==
    [schemas |-> schemas,
     decoder |-> NewSchemaDecoder(schemas),
     encoder |-> NewSchemaEncoder(schemas)]

\* the fields of a schema have pairwise distinct wire tags
DistinctFieldTags(schema) ==
    \A i, j \in 1..Len(schema.Fields) :
      i # j => schema.Fields[i].SmsgTag # schema.Fields[j].SmsgTag

\* "" "0" "+5" "128" "A" and 'x' followed by the invalid byte 0xFF
FramePayloads == { <<>>, <<48>>, <<43, 53>>, <<49, 50, 56>>, <<65>>, <<120, 255>> }

FrameTags ==
    { [Tag |-> t, Constructor |-> FALSE, VarLen |-> FALSE, Data |-> p] :
        t \in {TagNi, TagAnr}, p \in FramePayloads }

\* "00000 ", the terminator as the frames of the tests carry it
FrameTerminator == <<48, 48, 48, 48, 48, 32>>

\* what a frame carries behind its terminator: nothing, one more tag, or
\* "ZZZZ"
AfterTerminator ==
    { AddTags(<<>>, ts) : ts \in AllSeqs(FrameTags, 1) } \cup { <<90, 90, 90, 90>> }

Frames ==
    { (AddVariableTag(<<>>, TagSip) \o AddTags(<<>>, ts)) \o term :
        ts \in AllSeqs(FrameTags, MaxFrameTags), term \in { <<>>, FrameTerminator } }
    \cup
    { (AddVariableTag(<<>>, rt) \o AddTags(<<>>, ts)) \o FrameTerminator :
        rt \in {TagTest, TagUnregistered}, ts \in AllSeqs(FrameTags, 1) }
    \cup
    { AddRaw(<<>>, TagSip, AddTags(<<>>, ts)) \o FrameTerminator :
        ts \in AllSeqs(FrameTags, 1) }
    \cup
    { AddVariableTag(<<>>, rt) \o junk :
        rt \in {TagSip, TagUnregistered},
        junk \in { <<90, 90, 90, 90>>, <<48, 48, 71, 49>>, <<49, 48, 65, 65, 53, 32, 97, 98>>, <<49, 48, 65, 65>> } }
    \cup
    { ((AddVariableTag(<<>>, TagSip) \o AddTags(<<>>, ts)) \o FrameTerminator) \o tail :
        ts \in AllSeqs(FrameTags, 1), tail \in AfterTerminator }
    \cup { <<>>, <<57, 48>>, <<57, 48, 49, 57>>, <<90, 90, 90, 90, 32, 49>> }

NoDec == DecodeNil("init")

NoEnc == EncodeNil("init", "")

CodecIdle ==
    /\ buf = <<>> /\ calls = <<>> /\ it = Tags(<<>>) /\ res = NoRes /\ ntags = 0

InitSerde ==
    /\ reg \in { Registry(sl) : sl \in SchemaLists }
    /\ frame \in Frames
    /\ inmsg = NoMsg
    /\ dec = NoDec /\ enc = NoEnc /\ dec2 = NoDec
    /\ pc = "start"
    /\ CodecIdle
    /\ ReaderIdle
    /\ CallersIdle
    /\ SchemaFieldsIdle

\* dec := decoder.Decode(frame)
DecodeStep ==
    /\ pc = "start"
    /\ reg.decoder.err = "none"
    /\ dec' = Decode(reg.decoder, frame)
    /\ pc' = "decoded"
    /\ UNCHANGED <<schemaFields, callers, stream, reads, maxMsgSize, buf, it, res, ntags, calls, reg, frame, inmsg, enc, dec2>>

\* enc := encoder.Encode(the message Decode returned, partial or not)
EncodeDecodedStep ==
    /\ pc = "decoded"
    /\ ~dec.nilmsg
    /\ reg.encoder.err = "none"
    /\ inmsg' = dec.msg
    /\ enc' = Encode(reg.encoder, dec.msg)
    /\ pc' = "encoded"
    /\ UNCHANGED <<schemaFields, callers, stream, reads, maxMsgSize, buf, it, res, ntags, calls, reg, frame, dec, dec2>>

\* dec2 := decoder.Decode(the output of Encode)
RedecodeStep ==
    /\ pc = "encoded"
    /\ enc.err = "none"
    /\ reg.decoder.err = "none"
    /\ dec2' = Decode(reg.decoder, enc.raw)
    /\ pc' = "done"
    /\ UNCHANGED <<schemaFields, callers, stream, reads, maxMsgSize, buf, it, res, ntags, calls, reg, frame, inmsg, dec, enc>>

NextSerde ==
    \/ DecodeStep
    \/ EncodeDecodedStep
    \/ RedecodeStep

SpecSerde == InitSerde /\ [][NextSerde]_vars

\* decimal numerals around the limits of the four widths, as the text of a
\* tag
IntTexts ==
    {
      <<48>>,  \* 0
      <<45, 48>>,  \* -0
      <<53>>,  \* 5
      <<43, 53>>,  \* +5
      <<45, 53>>,  \* -5
      <<48, 48, 55>>,  \* 007
      <<49, 50, 55>>,  \* 127
      <<43, 49, 50, 55>>,  \* +127
      <<49, 50, 56>>,  \* 128
      <<43, 49, 50, 56>>,  \* +128
      <<45, 49, 50, 56>>,  \* -128
      <<45, 49, 50, 57>>,  \* -129
      <<48, 49, 50, 56>>,  \* 0128
      <<51, 48, 48>>,  \* 300
      <<45, 51, 48, 48>>,  \* -300
      <<51, 50, 55, 54, 55>>,  \* 32767
      <<51, 50, 55, 54, 56>>,  \* 32768
      <<45, 51, 50, 55, 54, 56>>,  \* -32768
      <<45, 51, 50, 55, 54, 57>>,  \* -32769
      <<55, 48, 48, 48, 48>>,  \* 70000
      <<50, 49, 52, 55, 52, 56, 51, 54, 52, 55>>,  \* 2147483647
      <<50, 49, 52, 55, 52, 56, 51, 54, 52, 56>>,  \* 2147483648
      <<45, 50, 49, 52, 55, 52, 56, 51, 54, 52, 56>>,  \* -2147483648
      <<45, 50, 49, 52, 55, 52, 56, 51, 54, 52, 57>>,  \* -2147483649
      <<51, 48, 48, 48, 48, 48, 48, 48, 48, 48>>,  \* 3000000000
      <<57, 50, 50, 51, 51, 55, 50, 48, 51, 54, 56, 53, 52, 55, 55, 53, 56, 48, 55>>,  \* 9223372036854775807
      <<57, 50, 50, 51, 51, 55, 50, 48, 51, 54, 56, 53, 52, 55, 55, 53, 56, 48, 56>>,  \* 9223372036854775808
      <<45, 57, 50, 50, 51, 51, 55, 50, 48, 51, 54, 56, 53, 52, 55, 55, 53, 56, 48, 56>>,  \* -9223372036854775808
      <<45, 57, 50, 50, 51, 51, 55, 50, 48, 51, 54, 56, 53, 52, 55, 55, 53, 56, 48, 57>>,  \* -9223372036854775809
      <<49, 56, 52, 52, 54, 55, 52, 52, 48, 55, 51, 55, 48, 57, 53, 53, 49, 54, 49, 53>>,  \* 18446744073709551615
      <<49, 56, 52, 52, 54, 55, 52, 52, 48, 55, 51, 55, 48, 57, 53, 53, 49, 54, 49, 54>>,  \* 18446744073709551616
      <<45, 49, 56, 52, 52, 54, 55, 52, 52, 48, 55, 51, 55, 48, 57, 53, 53, 49, 54, 49, 54>>,  \* -18446744073709551616
      <<57, 57, 57, 57, 57, 57, 57, 57, 57, 57, 57, 57, 57, 57, 57, 57, 57, 57, 57, 57>> }  \* 99999999999999999999

IntWidths == {8, 16, 32, 64}

IntTypeOfWidth(w) ==
    CASE w = 8 -> "int8" [] w = 16 -> "int16" [] w = 32 -> "int32" [] OTHER -> "int64"

\* a schema "test" of one integer field, number
IntSchema(w, nullable) ==
    [RecordType |-> MkRecordType("test", TagTest),
     Fields |-> << MkField("number", IntTypeOfWidth(w), nullable, TRUE, TagTestField) >>]

\* msg.AddVariableTag(0x1000); msg.Add(0x1001, text); msg.Terminate()
IntFrame(text) ==
    Terminate(Add(AddVariableTag(<<>>, TagTest), TagTestField, text))

InitIntWidth ==
    /\ reg \in { Registry(<< IntSchema(w, n) >>) : w \in IntWidths, n \in BOOLEAN }
    /\ frame \in { IntFrame(text) : text \in IntTexts }
    /\ inmsg = NoMsg
    /\ dec = NoDec /\ enc = NoEnc /\ dec2 = NoDec
    /\ pc = "start"
    /\ CodecIdle
    /\ ReaderIdle
    /\ CallersIdle
    /\ SchemaFieldsIdle

NextIntWidth ==
    \/ DecodeStep
    \/ EncodeDecodedStep
    \/ RedecodeStep

SpecIntWidth == InitIntWidth /\ [][NextIntWidth]_vars

\* values a caller may store in Fields: nil, int8 5 and -5, int64 5, true,
\* "", "A", "zz", []byte("ab"), []byte{} and a nil []byte
EncValues ==
    { NilVal, Val("int8", FALSE, <<53>>), Val("int8", TRUE, <<53>>),
      Val("int64", FALSE, <<53>>), Val("bool", FALSE, <<1>>),
      Val("string", FALSE, <<>>), Val("string", FALSE, <<65>>),
      Val("string", FALSE, <<122, 122>>), Val("bytes", FALSE, <<97, 98>>),
      Val("bytes", FALSE, <<>>), Val("nilbytes", FALSE, <<>>) }

EncValuesAnr ==
    { NilVal, Val("int8", FALSE, <<53>>), Val("string", FALSE, <<65>>),
      Val("bytes", FALSE, <<>>), Val("nilbytes", FALSE, <<>>) }

\* the field maps over the keys ni and anr, each present or not
FieldMaps ==
    { [n \in {} |-> NilVal] }
    \cup { [n \in {"ni"} |-> v] : v \in EncValues }
    \cup { [n \in {"anr"} |-> v] : v \in EncValuesAnr }
    \cup { [n \in {"ni", "anr"} |-> IF n = "ni" THEN v ELSE w] :
             v \in EncValues, w \in EncValuesAnr }

Msgs ==
    { [RecordType |-> "sip", RecordTag |-> TagSip, Fields |-> fm] : fm \in FieldMaps }
    \cup
    { [RecordType |-> rt, RecordTag |-> tag, Fields |-> fm] :
        rt \in {"sip", "test", "unknown"},
        tag \in {TagSip, TagTest, TagUnregistered},
        fm \in { [n \in {} |-> NilVal],
                 [n \in {"ni", "anr"} |-> Val("string", FALSE, <<65>>)],
                 [n \in {"testfield"} |-> Val("string", FALSE, <<65>>)] } }

InitEncode ==
    /\ reg \in { Registry(sl) : sl \in SchemaLists \cup UntaggedSchemaLists }
    /\ frame = <<>>
    /\ inmsg \in Msgs
    /\ dec = NoDec /\ enc = NoEnc /\ dec2 = NoDec
    /\ pc = "start"
    /\ CodecIdle
    /\ ReaderIdle
    /\ CallersIdle
    /\ SchemaFieldsIdle

\* enc := encoder.Encode(inmsg)
EncodeStep ==
    /\ pc = "start"
    /\ reg.encoder.err = "none"
    /\ enc' = Encode(reg.encoder, inmsg)
    /\ pc' = "encoded"
    /\ UNCHANGED <<schemaFields, callers, stream, reads, maxMsgSize, buf, it, res, ntags, calls, reg, frame, inmsg, dec, dec2>>

NextEncode ==
    \/ EncodeStep
    \/ RedecodeStep

SpecEncode == InitEncode /\ [][NextEncode]_vars

(***************************************************************************)
(* Enum fields through Decode and Encode: frames and messages with values  *)
(* inside and outside the declared set "A", "B", the message given to      *)
(* Encode hand-built or taken from Decode and then changed by the caller.  *)
(***************************************************************************)
\* "" "A" "a" "AB" "B"
EnumTexts == { <<>>, <<65>>, <<97>>, <<65, 66>>, <<66>> }

\* sip with an enum field first, second or both, next to a string or int8
EnumSchemaLists ==
    { << SipSchema(MkField("ni", k[1], n, TRUE, TagNi),
                   MkField("anr", k[2], n, TRUE, TagAnr)) >> :
        k \in { <<"enum", "string">>, <<"enum", "enum">>, <<"int8", "enum">>,
                <<"string", "enum">> },
        n \in BOOLEAN }

EnumFrames ==
    { AddVariableTag(<<>>, TagSip) \o AddTags(<<>>, ts) :
        ts \in AllSeqs({ [Tag |-> t, Constructor |-> FALSE, VarLen |-> FALSE, Data |-> p] :
                           t \in {TagNi, TagAnr}, p \in EnumTexts \ { <<66>> } }, 2) }

EnumMsgs ==
    { [RecordType |-> "sip", RecordTag |-> TagSip, Fields |-> fm] :
        fm \in { [n \in {"ni"} |-> Val("string", FALSE, v)] : v \in EnumTexts }
           \cup { [n \in {"ni", "anr"} |->
                     IF n = "ni" THEN Val("string", FALSE, v) ELSE Val("string", FALSE, w)] :
                    v \in { <<65>>, <<65, 66>> }, w \in EnumTexts } }

InitEnum ==
    /\ reg \in { Registry(sl) : sl \in EnumSchemaLists }
    /\ \/ frame \in EnumFrames /\ inmsg = NoMsg /\ pc = "start"
       \/ frame = <<>> /\ inmsg \in EnumMsgs /\ pc = "built"
    /\ dec = NoDec /\ enc = NoEnc /\ dec2 = NoDec
    /\ CodecIdle
    /\ ReaderIdle
    /\ CallersIdle
    /\ SchemaFieldsIdle

\* enc := encoder.Encode(inmsg) of a message the caller built
EncodeBuiltStep ==
    /\ pc = "built"
    /\ reg.encoder.err = "none"
    /\ enc' = Encode(reg.encoder, inmsg)
    /\ pc' = "encoded"
    /\ UNCHANGED <<schemaFields, callers, stream, reads, maxMsgSize, buf, it, res, ntags, calls, reg,
                   frame, inmsg, dec, dec2>>

\* msg.Fields[name] = v on the message Decode returned, then
\* enc := encoder.Encode(msg)
EncodeChangedStep ==
    /\ pc = "decoded"
    /\ ~dec.nilmsg
    /\ reg.encoder.err = "none"
    /\ \E name \in {"ni", "anr"}, v \in EnumTexts :
         LET msg == [dec.msg EXCEPT
                       !.Fields = MapSet(dec.msg.Fields, name, Val("string", FALSE, v))]
         IN  /\ inmsg' = msg
             /\ enc' = Encode(reg.encoder, msg)
    /\ pc' = "encoded"
    /\ UNCHANGED <<schemaFields, callers, stream, reads, maxMsgSize, buf, it, res, ntags, calls, reg,
                   frame, dec, dec2>>

NextEnum ==
    \/ DecodeStep
    \/ EncodeDecodedStep
    \/ EncodeChangedStep
    \/ EncodeBuiltStep
    \/ RedecodeStep

SpecEnum == InitEnum /\ [][NextEnum]_vars

(***************************************************************************)
(* Concurrent calls on one decoder and one encoder.  Each caller makes one *)
(* call, Decode of its own frame or Encode of its own message, and the     *)
(* calls are interleaved statement group by statement group: a step reads  *)
(* the tables of reg or the scratch map at most once.  callers[p] is       *)
(*   op, frame, msg  the call and its argument                             *)
(*   pc       "begin", "scan", "coerce", "fields" or "done"                *)
(*   first    recordType, rest the data of the Iter of the scan loop       *)
(*   tags     the scratch map made by the call                             *)
(*   name     the key of the schema Encode looked up, i the index of its   *)
(*            loop, inner the inner RawSMsg                                *)
(*   result   what the call returned                                       *)
(*   overlapped  the call took a step while another call was under way     *)
(***************************************************************************)
Callers == {1, 2}

\* one scratch map for all the calls
TagsOfFirstCaller(p) == 1

\* the caller whose record holds the map tags of the call of p: Decode makes
\* a new map in every call
TagsOf(p) == p

CallerStart(op, f, m) ==
    [op |-> op, frame |-> f, msg |-> m, pc |-> "begin", first |-> ZeroTag,
     rest |-> <<>>, tags |-> EmptyFields, name |-> "", i |-> 0, inner |-> <<>>,
     result |-> NoDec, overlapped |-> FALSE]

\* ni a string, anr a nullable int8, next to the schema test; and ni a
\* nullable int8 with anr a nullable string
ConcurrentSchemaLists ==
    { << SipSchema(MkField("ni", "string", FALSE, TRUE, TagNi),
                   MkField("anr", "int8", TRUE, TRUE, TagAnr)), TestSchema >>,
      << SipSchema(MkField("ni", "int8", TRUE, TRUE, TagNi),
                   MkField("anr", "string", TRUE, TRUE, TagAnr)) >> }

ConcurrentFrames ==
    { (Add(Add(AddVariableTag(<<>>, TagSip), TagNi, <<65>>), TagAnr, <<43, 53>>)) \o FrameTerminator,
      Add(AddVariableTag(<<>>, TagSip), TagAnr, <<48>>),
      Add(AddVariableTag(<<>>, TagSip), TagNi, <<>>),
      Add(AddVariableTag(<<>>, TagTest), TagTestField, <<65>>),
      AddVariableTag(<<>>, TagUnregistered),
      AddVariableTag(<<>>, TagSip) \o <<48, 48, 71, 49>> }

ConcurrentMsgs ==
    { [RecordType |-> "sip", RecordTag |-> TagSip,
       Fields |-> [n \in {"ni", "anr"} |->
                     IF n = "ni" THEN Val("string", FALSE, <<65>>)
                     ELSE Val("int8", FALSE, <<53>>)]],
      [RecordType |-> "sip", RecordTag |-> TagSip,
       Fields |-> [n \in {"anr"} |-> Val("string", FALSE, <<122, 122>>)]],
      [RecordType |-> "test", RecordTag |-> TagTest,
       Fields |-> [n \in {"testfield"} |-> Val("string", FALSE, <<65>>)]],
      [RecordType |-> "sip", RecordTag |-> TagTest, Fields |-> EmptyFields],
      [RecordType |-> "unknown", RecordTag |-> TagSip, Fields |-> EmptyFields] }

ConcurrentCalls ==
    { CallerStart("Decode", f, NoMsg) : f \in ConcurrentFrames }
    \cup { CallerStart("Encode", <<>>, m) : m \in ConcurrentMsgs }

InitConcurrent ==
    /\ reg \in { Registry(sl) : sl \in ConcurrentSchemaLists }
    /\ callers \in [Callers -> ConcurrentCalls]
    /\ frame = <<>> /\ inmsg = NoMsg
    /\ dec = NoDec /\ enc = NoEnc /\ dec2 = NoDec
    /\ pc = "run"
    /\ CodecIdle
    /\ ReaderIdle
    /\ SchemaFieldsIdle

\* another call than that of p is between its first and its last step
OtherUnderWay(p) ==
    \E q \in Callers \ {p} : callers[q].pc \notin {"begin", "done"}

\* callers after a step of p that leaves its record as c and the scratch
\* map of its call as tags
CallerStepped(p, c, tags) ==
    LET c1 == [c EXCEPT !.overlapped = c.overlapped \/ OtherUnderWay(p)]
        cs == [callers EXCEPT ![p] = c1]
    IN  [cs EXCEPT ![TagsOf(p)].tags = tags]

CallerReturned(p, result) ==
    CallerStepped(p, [callers[p] EXCEPT !.pc = "done", !.result = result],
                  callers[TagsOf(p)].tags)

ConcurrentStep(p, cs) ==
    /\ pc = "run"
    /\ callers' = cs
    /\ UNCHANGED <<schemaFields, stream, reads, maxMsgSize, buf, it, res, ntags, calls, pc, reg,
                   frame, inmsg, dec, enc, dec2>>

\* Decode up to its loop: it := r.Tags(); recordType, err := it.NextTag();
\* tags := make(...); it = recordType.SubTags()
DecodeBegin(p) ==
    /\ callers[p].op = "Decode" /\ callers[p].pc = "begin"
    /\ reg.decoder.err = "none"
    /\ LET first == NextTag(callers[p].frame)
       IN  ConcurrentStep(p,
             IF first.err # "none" THEN CallerReturned(p, DecodeNil(first.err))
             ELSE CallerStepped(p, [callers[p] EXCEPT !.pc = "scan", !.first = first.t,
                                                     !.rest = first.t.Data],
                                EmptyFields))

\* one round of the loop of Decode
DecodeScan(p) ==
    /\ callers[p].op = "Decode" /\ callers[p].pc = "scan"
    /\ LET r == NextTag(callers[p].rest)
           tags == callers[TagsOf(p)].tags
       IN  ConcurrentStep(p,
             IF r.err = "EOS"
               THEN CallerStepped(p, [callers[p] EXCEPT !.pc = "coerce"], tags)
             ELSE IF r.err # "none" THEN CallerReturned(p, DecodeNil(r.err))
             ELSE IF r.t.Tag = 0
               THEN CallerStepped(p, [callers[p] EXCEPT !.pc = "coerce"], tags)
             ELSE CallerStepped(p, [callers[p] EXCEPT !.rest = r.rest],
                                MapSet(tags, r.t.Tag, r.t.Data)))

\* return s.coerce(&recordType, tags)
DecodeCoerce(p) ==
    /\ callers[p].op = "Decode" /\ callers[p].pc = "coerce"
    /\ ConcurrentStep(p,
         CallerReturned(p, coerce(reg.decoder, callers[p].first, callers[TagsOf(p)].tags)))

\* Encode up to its loop: the lookup of the schema and the test of the
\* record tag
EncodeLookup(p) ==
    /\ callers[p].op = "Encode" /\ callers[p].pc = "begin"
    /\ reg.encoder.err = "none"
    /\ LET msg == callers[p].msg
           l == LookupSchema(reg.encoder, msg)
           x == extractSmsgTag(l.schema.RecordType)
       IN  ConcurrentStep(p,
             IF ~l.ok THEN CallerReturned(p, EncodeNil("NoSchema", ""))
             ELSE IF x.err # "none" THEN CallerReturned(p, EncodeNil("SchemaError", ""))
             ELSE IF x.tag # msg.RecordTag
               THEN CallerReturned(p, EncodeNil("TagMismatch", ""))
             ELSE CallerStepped(p, [callers[p] EXCEPT !.pc = "fields", !.i = 1,
                                                     !.name = msg.RecordType],
                                callers[TagsOf(p)].tags))

\* one round of the loop of Encode over the fields of the schema it holds a
\* pointer to, or, after the last round, the wrapping of inner
EncodeNextField(p) ==
    /\ callers[p].op = "Encode" /\ callers[p].pc = "fields"
    /\ LET c == callers[p]
           schema == reg.encoder.schemas[c.name]
           tags == callers[TagsOf(p)].tags
       IN  ConcurrentStep(p,
             IF c.i > Len(schema.Fields)
               THEN CallerReturned(p,
                      [err |-> "none", errField |-> "", nilraw |-> FALSE,
                       raw |-> Terminate(AddVariableTag(<<>>, c.msg.RecordTag) \o c.inner)])
             ELSE LET r == EncodeField(schema.Fields[c.i], c.msg.Fields, c.inner)
                  IN  IF r.err # "none"
                        THEN CallerReturned(p, EncodeNil(r.err, schema.Fields[c.i].Name))
                        ELSE CallerStepped(p, [c EXCEPT !.i = c.i + 1, !.inner = r.inner],
                                           tags))

NextConcurrent ==
    \E p \in Callers :
      \/ DecodeBegin(p)
      \/ DecodeScan(p)
      \/ DecodeCoerce(p)
      \/ EncodeLookup(p)
      \/ EncodeNextField(p)

SpecConcurrent == InitConcurrent /\ [][NextConcurrent]_vars

(***************************************************************************)
(* The helpers of Schema on its top-level fields (src/schema.go).          *)
(* schemaFields is Schema.Fields, calls the Fields given to SetField, in   *)
(* order.                                                                  *)
(***************************************************************************)
\* the index of the first field called name, 0 when there is none: the
\* loop of GetField, SetField and Contains
FirstNamed(fs, name) ==
    IF \E i \in 1..Len(fs) : fs[i].Name = name
      THEN CHOOSE i \in 1..Len(fs) :
             fs[i].Name = name /\ \A j \in 1..(i - 1) : fs[j].Name # name
      ELSE 0

GetField(fs, name) ==
    IF FirstNamed(fs, name) = 0
      THEN [err |-> "not found", field |-> MkField("", "", FALSE, FALSE, 0)]
      ELSE [err |-> "none", field |-> fs[FirstNamed(fs, name)]]

\* SetField without the loop over the existing fields
SetFieldAppending(fs, field) == Append(fs, field)

SetField(fs, field) ==
    IF FirstNamed(fs, field.Name) = 0 THEN Append(fs, field)
    ELSE [fs EXCEPT ![FirstNamed(fs, field.Name)] = field]

Contains(fs, name) == FirstNamed(fs, name) # 0

\* the Fields given to SetField
SetFieldArgs ==
    { MkField(n, t, nullable, FALSE, 0) :
        n \in {"name", "age", "email"}, t \in {"string", "int32"}, nullable \in BOOLEAN }

\* the schemas SetField is called on: without fields, with one field and
\* with the fields name and age
SetFieldSchemas ==
    { <<>>,
      << MkField("email", "string", TRUE, FALSE, 0) >>,
      << MkField("name", "string", FALSE, FALSE, 0), MkField("age", "int32", TRUE, FALSE, 0) >> }

InitSchema ==
    /\ schemaFields \in SetFieldSchemas
    /\ calls = <<>>
    /\ buf = <<>> /\ it = Tags(<<>>) /\ res = NoRes /\ ntags = 0
    /\ pc = "schema"
    /\ SerdeIdle
    /\ ReaderIdle
    /\ CallersIdle

\* schema.SetField(field)
SetFieldStep ==
    /\ pc = "schema"
    /\ Len(calls) < MaxSetFields
    /\ \E field \in SetFieldArgs :
         /\ schemaFields' = SetField(schemaFields, field)
         /\ calls' = Append(calls, field)
    /\ UNCHANGED <<callers, stream, reads, maxMsgSize, buf, it, res, ntags, pc, reg,
                   frame, inmsg, dec, enc, dec2>>

NextSchema == SetFieldStep

SpecSchema == InitSchema /\ [][NextSchema]_vars

(***************************************************************************)
(* The frame reader, RawSMsgReader (src/smsg.go).                          *)
(*   stream      the bytes the underlying bufio.Reader has still to        *)
(*               deliver; after them it reports io.EOF                     *)
(*   reads       the results of the ReadRawSMsg calls made, in order, each *)
(*               [from, l, data, err, size, maxSize]: from the stream      *)
(*               before the call, l the bytes the call took from it,       *)
(*               data the RawSMsg.Data returned, err the                   *)
(*               error, size and maxSize the fields of a                   *)
(*               MessageTooLargeError                                      *)
(*   maxMsgSize  RawSMsgReader.MaxMsgSize, 0 for the reader without limit  *)
(***************************************************************************)
\* bufio.Reader.ReadBytes(delim) on a reader that has s to deliver: the
\* bytes up to and including the first delim, or all of s and io.EOF
ReadBytes(s, delim) ==
    LET i == IndexByte(s, delim)
    IN  IF i = -1
          THEN [l |-> s, err |-> "EOF", rest |-> <<>>]
          ELSE [l |-> SliceTo(s, i + 1), err |-> "none", rest |-> SliceFrom(s, i + 1)]

\* one round of the loop over "\r\n": l without its last byte when that is b
StripLast(l, b) ==
    IF Len(l) > 0 /\ l[Len(l)] = b THEN SliceTo(l, Len(l) - 1) ELSE l

\* the loop of ReadRawSMsg over []byte("\r\n"): first '\r', then '\n'
StripLineEnding(l) == StripLast(StripLast(l, CR), LF)

\* ReadRawSMsg testing for data after the line ending is stripped
ReadRawSMsgStrippedFirst(s) ==
    LET r == ReadBytes(s, LF)
    IN  IF Len(StripLineEnding(r.l)) > 0
          THEN [l |-> r.l, data |-> StripLineEnding(r.l),
                err |-> IF r.err = "EOF" THEN "none" ELSE r.err,
                size |-> 0, maxSize |-> 0, rest |-> r.rest]
        ELSE [l |-> r.l, data |-> <<>>, size |-> 0, maxSize |-> 0, rest |-> r.rest,
              err |-> IF r.err = "none" THEN "ErrUnexpectedEnd"
                      ELSE IF r.err = "EOF" THEN "EOS" ELSE r.err]

\* ReadRawSMsg on a reader that has s to deliver: the result and rest, what
\* the reader has to deliver after the call
ReadRawSMsg(s) ==
    LET r == ReadBytes(s, LF)
    IN  IF Len(r.l) > 0
          THEN [l |-> r.l, data |-> StripLineEnding(r.l),
                err |-> IF r.err = "EOF" THEN "none" ELSE r.err,
                size |-> 0, maxSize |-> 0, rest |-> r.rest]
        ELSE [l |-> r.l, data |-> r.l, size |-> 0, maxSize |-> 0, rest |-> r.rest,
              err |-> IF r.err = "none" THEN "ErrUnexpectedEnd"
                      ELSE IF r.err = "EOF" THEN "EOS" ELSE r.err]

\* the streams: every byte sequence up to MaxStreamLen over 'a' '\r' '\n'
StreamAlphabet == {97, CR, LF}

Streams == AllSeqs(StreamAlphabet, MaxStreamLen)

\* every stream is read to its end and once more
MaxReads == MaxStreamLen + 2

InitReader ==
    /\ stream \in Streams
    /\ reads = <<>>
    /\ maxMsgSize = 0
    /\ pc = "read"
    /\ CodecIdle
    /\ SerdeIdle
    /\ CallersIdle
    /\ SchemaFieldsIdle

\* smsg, err := r.ReadRawSMsg()
ReadRawSMsgStep ==
    /\ pc = "read"
    /\ Len(reads) < MaxReads
    /\ LET r == ReadRawSMsg(stream)
       IN  /\ reads' = Append(reads, [from |-> stream, l |-> r.l, data |-> r.data,
                                      err |-> r.err, size |-> r.size,
                                      maxSize |-> r.maxSize])
           /\ stream' = r.rest
    /\ UNCHANGED <<schemaFields, callers, maxMsgSize, pc, buf, it, res, ntags, calls,
                   reg, frame, inmsg, dec, enc, dec2>>

NextReader == ReadRawSMsgStep

SpecReader == InitReader /\ [][NextReader]_vars

(***************************************************************************)
(* Encoded messages written to a stream and read back: each successful     *)
(* Encode is written to a bytes.Buffer, then a RawSMsgReader on the buffer *)
(* reads frames to the end.  calls records each message written with the   *)
(* RawSMsg.Data Encode returned for it.                                    *)
(***************************************************************************)
\* sip with ni a string and anr a nullable int8
StreamSchema ==
    SipSchema(MkField("ni", "string", FALSE, TRUE, TagNi),
              MkField("anr", "int8", TRUE, TRUE, TagAnr))

\* the messages encoded: ni "A", "\n" or "a\nb", anr absent or int8 5
StreamMsgs ==
    { [RecordType |-> "sip", RecordTag |-> TagSip, Fields |-> fm] :
        fm \in { [n \in {"ni"} |-> Val("string", FALSE, v)] :
                   v \in { <<65>>, << LF >>, <<97, LF, 98>> } }
           \cup { [n \in {"ni", "anr"} |->
                     IF n = "ni" THEN Val("string", FALSE, v)
                     ELSE Val("int8", FALSE, <<53>>)] :
                    v \in { <<65>>, << LF >>, <<97, LF, 98>> } } }

InitStream ==
    /\ reg = Registry(<< StreamSchema >>)
    /\ stream = <<>>
    /\ reads = <<>>
    /\ maxMsgSize = 0
    /\ pc = "write"
    /\ frame = <<>> /\ inmsg = NoMsg
    /\ dec = NoDec /\ enc = NoEnc /\ dec2 = NoDec
    /\ CodecIdle
    /\ CallersIdle
    /\ SchemaFieldsIdle

\* raw, err := encoder.Encode(msg); if err == nil { b.Write(raw.Data) }
WriteEncodedStep ==
    /\ pc = "write"
    /\ Len(calls) < MaxCalls
    /\ \E msg \in StreamMsgs :
         LET e == Encode(reg.encoder, msg)
         IN  /\ e.err = "none"
             /\ stream' = stream \o e.raw
             /\ calls' = Append(calls, [op |-> "Write", msg |-> msg, data |-> e.raw])
    /\ UNCHANGED <<schemaFields, callers, reads, maxMsgSize, pc, buf, it, res, ntags,
                   reg, frame, inmsg, dec, enc, dec2>>

\* r := NewRawSMsgReader(&b)
NewRawSMsgReaderStep ==
    /\ pc = "write"
    /\ pc' = "read"
    /\ UNCHANGED <<schemaFields, callers, stream, reads, maxMsgSize, buf, it, res, ntags,
                   calls, reg, frame, inmsg, dec, enc, dec2>>

NextStream ==
    \/ WriteEncodedStep
    \/ NewRawSMsgReaderStep
    \/ ReadRawSMsgStep

SpecStream == InitStream /\ [][NextStream]_vars

(***************************************************************************)
(* The reader with a size limit.  src/ holds the reader without            *)
(* MaxMsgSize; the tests set reader.MaxMsgSize and expect a                *)
(* MessageTooLargeError (src/errors.go), so the limit is modelled from the *)
(* specification: a line longer than the limit, newline included, gives    *)
(* the error with the configured maximum and the offending size; the read  *)
(* is bounded incrementally, so the reader may notice the excess at any    *)
(* size above the limit, size, and has by then taken size bytes.           *)
(***************************************************************************)
\* the limited reader refusing a line as long as the limit
ReadRawSMsgLimitedAtLimit(s, max, size) ==
    LET r == ReadBytes(s, LF)
    IN  IF Len(r.l) >= max
          THEN [l |-> r.l, data |-> <<>>, err |-> "MessageTooLargeError",
                size |-> size, maxSize |-> max, rest |-> r.rest]
          ELSE ReadRawSMsg(s)

ReadRawSMsgLimited(s, max, size) ==
    LET r == ReadBytes(s, LF)
    IN  IF Len(r.l) > max
          THEN [l |-> SliceTo(s, size), data |-> <<>>, err |-> "MessageTooLargeError",
                size |-> size, maxSize |-> max, rest |-> SliceFrom(s, size)]
          ELSE ReadRawSMsg(s)

\* the limits a reader is given
Limits == 1..(MaxStreamLen - 1)

InitLimitedReader ==
    /\ stream \in Streams
    /\ reads = <<>>
    /\ maxMsgSize \in Limits
    /\ pc = "read"
    /\ CodecIdle
    /\ SerdeIdle
    /\ CallersIdle
    /\ SchemaFieldsIdle

\* smsg, err := r.ReadRawSMsg() on a reader with r.MaxMsgSize = maxMsgSize
ReadRawSMsgLimitedStep ==
    /\ pc = "read"
    /\ Len(reads) < MaxReads
    /\ \E size \in (maxMsgSize + 1)..(maxMsgSize + MaxStreamLen) :
         /\ size <= Len(ReadBytes(stream, LF).l) \/ size = maxMsgSize + 1
         /\ LET r == ReadRawSMsgLimited(stream, maxMsgSize, size)
            IN  /\ reads' = Append(reads, [from |-> stream, l |-> r.l, data |-> r.data,
                                           err |-> r.err, size |-> r.size,
                                           maxSize |-> r.maxSize])
                /\ stream' = r.rest
    /\ UNCHANGED <<schemaFields, callers, maxMsgSize, pc, buf, it, res, ntags, calls,
                   reg, frame, inmsg, dec, enc, dec2>>

NextLimitedReader == ReadRawSMsgLimitedStep

SpecLimitedReader == InitLimitedReader /\ [][NextLimitedReader]_vars

(***************************************************************************)
(* Properties of the iterator (SpecIter).                                  *)
(***************************************************************************)
\* the input of the last call starts with a well formed tag id
InputHasTagId ==
    /\ res.err # "init"
    /\ Len(res.input) >= 4
    /\ ParseHexTag(SliceTo(res.input, 4)).err = "none"

\* C3: for every byte sequence, NextTag never indexes or slices outside the
\* remaining buffer: it returns a tag whose Data is a slice of the buffer that
\* lies inside the iterator's scope, or EOS, or an error value; and when
\* nothing, or no space at all, follows the tag id it returns ErrShortBuffer.
NextTagInBounds ==
    /\ ~res.oob
    /\ res.err \in {"init", "none", "EOS", "ErrShortBuffer", "ErrRange",
                    "NumError:syntax", "NumError:range"}
    /\ res.err = "none" =>
         /\ res.doff + Len(res.t.Data) <= Len(res.input)
         /\ res.aoff + Len(res.t.Data) <= Len(buf)
         /\ res.t.Data = SubSeq(buf, res.aoff + 1, res.aoff + Len(res.t.Data))
    /\ (InputHasTagId /\ IndexByte(SliceFrom(res.input, 4), SP) = -1) =>
         res.err = "ErrShortBuffer"

\* C3 witness: a call on exactly four hex digits returned ErrShortBuffer
TruncatedAfterTagId ==
    /\ InputHasTagId
    /\ Len(res.input) = 4
    /\ res.err = "ErrShortBuffer"

\* the input of the last call is a tag id, a decimal length field L (digits
\* only) and a space; LenField is L, LenRemaining the number of bytes after
\* the space
InputHasLenField ==
    /\ InputHasTagId
    /\ Len(res.input) >= 6
    /\ res.input[5] # SP
    /\ IndexByte(SliceFrom(res.input, 4), SP) # -1
    /\ \A i \in 5..(4 + IndexByte(SliceFrom(res.input, 4), SP)) :
         res.input[i] \in Digits

LenField ==
    Canon(SubSeq(res.input, 5, 4 + IndexByte(SliceFrom(res.input, 4), SP)))

LenRemaining ==
    Len(res.input) - 5 - IndexByte(SliceFrom(res.input, 4), SP)

\* C4: for any decimal length L in a tag header that exceeds the number of
\* bytes remaining after the separating space, NextTag returns ErrShortBuffer
\* and no tag data; a length equal to the remaining byte count succeeds.
LengthBeyondBufferIsShortBuffer ==
    InputHasLenField =>
      /\ NumLT(DecDigits(LenRemaining), LenField) =>
           res.err = "ErrShortBuffer" /\ res.t.Data = <<>>
      /\ LenField = DecDigits(LenRemaining) =>
           res.err = "none" /\ Len(res.t.Data) = LenRemaining

\* C4 restricted to the lengths that fit 32 bits: what the code does
LengthBeyondBufferWithinInt32 ==
    (InputHasLenField /\ NumLT(LenField, CutoffNum(32))) =>
      /\ NumLT(DecDigits(LenRemaining), LenField) =>
           res.err = "ErrShortBuffer" /\ res.t.Data = <<>>
      /\ LenField = DecDigits(LenRemaining) =>
           res.err = "none" /\ Len(res.t.Data) = LenRemaining

\* a length of 2^31 or more was answered with strconv's range error
LengthOverInt32 ==
    /\ InputHasLenField
    /\ ~NumLT(LenField, CutoffNum(32))
    /\ res.err = "NumError:range"

(***************************************************************************)
(* Properties of building and then iterating (SpecCodec).                  *)
(***************************************************************************)
\* the buffer was built by the single call Add(tagId, d) and is being
\* iterated at the top level
SingleAdd ==
    /\ pc = "iter"
    /\ it.depth = 0
    /\ Len(calls) = 1
    /\ calls[1].op = "Add"

\* C5 as stated: Add(tagId, d) on an empty RawSMsg and then NextTag yields one
\* tag with id = tagId & 0x7FFF, isConstructor = (tagId & 0x8000 # 0) and
\* data = d, followed by EOS.
AddThenNextTagKeepsConstructorBit ==
    SingleAdd =>
      /\ res.err = "none" =>
           /\ ntags = 1
           /\ res.t.Tag = calls[1].tag % 32768
           /\ res.t.Constructor = (calls[1].tag >= 32768)
           /\ res.t.Data = calls[1].data
      /\ res.err \notin {"none", "init"} => res.err = "EOS" /\ ntags = 1

\* C5 amended: the tag parsed back has id = tagId & 0x7FFF, data = d, is no
\* constructor and has a fixed length whatever bit 0x8000 of tagId was, and
\* it is followed by EOS.
AddThenNextTag ==
    SingleAdd =>
      /\ res.err = "none" =>
           /\ ntags = 1
           /\ res.t.Tag = calls[1].tag % 32768
           /\ ~res.t.Constructor
           /\ ~res.t.VarLen
           /\ res.t.Data = calls[1].data
           /\ it.data = <<>>
      /\ res.err \notin {"none", "init"} => res.err = "EOS" /\ ntags = 1

\* C5 witness: a tag id with bit 0x8000 set was added, parsed and followed
\* by EOS
AddedConstructorIdParsed ==
    /\ SingleAdd
    /\ calls[1].tag >= 32768
    /\ calls[1].data # <<>>
    /\ res.err = "EOS"
    /\ ntags = 1

(***************************************************************************)
(* Properties of Decode (SpecSerde).                                       *)
(***************************************************************************)
\* the outermost tag of the frame, as NextTag gives it
RecordTagOfFrame == NextTag(frame)

\* the nested tags of the frame's record tag, by wire id
NestedTagsOfFrame == ScanTags(RecordTagOfFrame.t.Data, EmptyFields)

\* the record tags the schemas of the registry configure
RegisteredTags == { reg.schemas[i].RecordType.SmsgTag : i \in 1..Len(reg.schemas) }

\* the schema of the registry with record tag t
SchemaOfTag(t) ==
    reg.schemas[CHOOSE i \in 1..Len(reg.schemas) :
                  reg.schemas[i].RecordType.SmsgTag = t]

\* the schema of the registry with record type name n
SchemaOfName(n) ==
    reg.schemas[CHOOSE i \in 1..Len(reg.schemas) :
                  reg.schemas[i].RecordType.Name = n]

RegisteredNames == { reg.schemas[i].RecordType.Name : i \in 1..Len(reg.schemas) }

\* the nullability matrix, row by row: what field f must decode to when the
\* nested tags are tags
MatrixOutcome(f, tags) ==
    LET present == f.SmsgTag \in DOMAIN tags
        raw     == IF present THEN tags[f.SmsgTag] ELSE <<>>
        isStr   == f.Type = "string"
        c       == ApplyCoerce(newFieldData(f), raw)
    IN  CASE ~present /\ f.Nullable -> [fail |-> FALSE, val |-> NilVal]
          [] ~present /\ ~f.Nullable -> [fail |-> TRUE, val |-> NilVal]
          [] present /\ raw = <<>> /\ isStr ->
               [fail |-> FALSE, val |-> Val("string", FALSE, <<>>)]
          [] present /\ raw = <<>> /\ ~isStr /\ f.Nullable ->
               [fail |-> FALSE, val |-> NilVal]
          [] present /\ raw = <<>> /\ ~isStr /\ ~f.Nullable ->
               [fail |-> TRUE, val |-> NilVal]
          [] present /\ raw # <<>> ->
               [fail |-> c.err # "none", val |-> c.val]

\* Decode got as far as the fields of a schema
DecodeReachedFields == pc # "start" /\ ~dec.nilmsg

UnmatchedTagIsMissingSchema ==
    (/\ pc # "start"
     /\ RecordTagOfFrame.err = "none"
     /\ RecordTagOfFrame.t.Tag \notin RegisteredTags)
      => /\ dec.err = "MissingSchemaError"
         /\ dec.errTag = RecordTagOfFrame.t.Tag
         /\ dec.nilmsg

\* the same for frames whose nested tags parse: holds
UnmatchedTagWithParsableNestedData ==
    (/\ pc # "start"
     /\ RecordTagOfFrame.err = "none"
     /\ NestedTagsOfFrame.err = "none"
     /\ RecordTagOfFrame.t.Tag \notin RegisteredTags)
      => /\ dec.err = "MissingSchemaError"
         /\ dec.errTag = RecordTagOfFrame.t.Tag
         /\ dec.nilmsg

\* C7: when Decode fails at a field, the partial message holds exactly the
\* fields declared before the failing field, each with the value the matrix
\* gives it, and no entry for the failing field or a later one.
PartialDecodeHoldsFieldsBeforeFailure ==
    (DecodeReachedFields /\ dec.err # "none") =>
      LET schema == SchemaOfTag(dec.msg.RecordTag)
          tags   == NestedTagsOfFrame.tags
      IN  \E k \in 1..Len(schema.Fields) :
            /\ schema.Fields[k].Name = dec.errField
            /\ MatrixOutcome(schema.Fields[k], tags).fail
            /\ DOMAIN dec.msg.Fields = { schema.Fields[j].Name : j \in 1..(k - 1) }
            /\ \A j \in 1..(k - 1) :
                 /\ ~MatrixOutcome(schema.Fields[j], tags).fail
                 /\ dec.msg.Fields[schema.Fields[j].Name]
                      = MatrixOutcome(schema.Fields[j], tags).val

\* a decode that failed converting anr after ni got a value
FailedAtSecondField ==
    /\ pc = "decoded"
    /\ dec.err = "ConversionError"
    /\ dec.errField = "anr"
    /\ ~dec.nilmsg
    /\ DOMAIN dec.msg.Fields = {"ni"}
    /\ dec.msg.Fields["ni"] # NilVal

\* C2: round trip: when the frame decodes without error, Encode of the
\* decoded message succeeds and Decode of its output gives the same record
\* type name, record tag and field map.
RoundTrip ==
    (pc # "start" /\ dec.err = "none") =>
      /\ pc \in {"encoded", "done"} => enc.err = "none"
      /\ pc = "done" => dec2.err = "none" /\ dec2.msg = dec.msg

\* the round trip under the schemas whose fields have distinct wire tags:
\* holds
RoundTripDistinctFieldTags ==
    (/\ pc # "start"
     /\ dec.err = "none"
     /\ DistinctFieldTags(SchemaOfTag(dec.msg.RecordTag)))
      => /\ pc \in {"encoded", "done"} => enc.err = "none"
         /\ pc = "done" => dec2.err = "none" /\ dec2.msg = dec.msg

(***************************************************************************)
(* Properties of Encode (SpecEncode).                                      *)
(***************************************************************************)
\* Encode found the schema of inmsg and its record tag matches
SchemaSelected ==
    /\ inmsg.RecordType \in RegisteredNames
    /\ SchemaOfName(inmsg.RecordType).RecordType.SmsgTag = inmsg.RecordTag

\* field f has no value in inmsg, or a nil one (a nil []byte included)
MissingOrNil(f) ==
    \/ f.Name \notin DOMAIN inmsg.Fields
    \/ inmsg.Fields[f.Name].k \in {"nil", "nilbytes"}

\* field f has no value in inmsg, or the untyped nil
MissingOrExplicitNil(f) ==
    \/ f.Name \notin DOMAIN inmsg.Fields
    \/ inmsg.Fields[f.Name].k = "nil"

\* C8: Encode is all-or-nothing, an error comes with a nil message, and a
\* missing or nil non-nullable field always gives an error, which names the
\* field unless it names a field declared before it.
EncodeAllOrNothing ==
    pc # "start" =>
      /\ enc.err # "none" => enc.nilraw
      /\ SchemaSelected =>
           LET schema == SchemaOfName(inmsg.RecordType)
           IN  \A i \in 1..Len(schema.Fields) :
                 (~schema.Fields[i].Nullable /\ MissingOrNil(schema.Fields[i]))
                   => /\ enc.err # "none"
                      /\ \E j \in 1..i : enc.errField = schema.Fields[j].Name

\* the first half alone: holds
EncodeErrorGivesNilMessage ==
    pc # "start" => (enc.err # "none" => enc.nilraw)

\* the nested tags of the output of Encode, by wire id
NestedTagsOfOutput == ScanTags(NextTag(enc.raw).t.Data, EmptyFields)

\* C9: for every nullable field missing from the message or nil, a
\* successful Encode emits no tag with the field's wire id, and decoding the
\* output yields null for the field.
NullableOmitted ==
    (pc # "start" /\ enc.err = "none") =>
      LET schema == SchemaOfName(inmsg.RecordType)
      IN  \A i \in 1..Len(schema.Fields) :
            (/\ schema.Fields[i].Nullable
             /\ schema.Fields[i].HasTag
             /\ MissingOrExplicitNil(schema.Fields[i]))
              => /\ schema.Fields[i].SmsgTag \notin DOMAIN NestedTagsOfOutput.tags
                 /\ pc = "done" =>
                      /\ dec2.err = "none"
                      /\ schema.Fields[i].Name \in DOMAIN dec2.msg.Fields
                      /\ dec2.msg.Fields[schema.Fields[i].Name] = NilVal

\* what Encode writes for the field itself: nothing.  Holds.
NullableWritesNothing ==
    (pc # "start" /\ enc.err = "none") =>
      LET schema == SchemaOfName(inmsg.RecordType)
      IN  \A i \in 1..Len(schema.Fields) :
            (/\ schema.Fields[i].Nullable
             /\ schema.Fields[i].HasTag
             /\ MissingOrExplicitNil(schema.Fields[i])
             /\ \A j \in 1..Len(schema.Fields) :
                  j # i => schema.Fields[j].SmsgTag # schema.Fields[i].SmsgTag)
              => schema.Fields[i].SmsgTag \notin DOMAIN NestedTagsOfOutput.tags

\* C10: Encode selects the schema by the record type name only: a name no
\* schema has fails with the no-schema error whatever the record tag, a
\* registered name with another record tag fails with the tag-mismatch
\* error, both with a nil message and no field named, and Encode succeeds
\* only for a registered name with its schema's tag.
SchemaSelectedByName ==
    pc # "start" =>
      /\ inmsg.RecordType \notin RegisteredNames
           => enc.err = "NoSchema" /\ enc.errField = "" /\ enc.nilraw
      /\ (inmsg.RecordType \in RegisteredNames /\ ~SchemaSelected)
           => enc.err = "TagMismatch" /\ enc.errField = "" /\ enc.nilraw
      /\ enc.err = "none" => SchemaSelected

\* an Encode that refused a registered name whose record tag is the tag of
\* another schema, the fields of the message being unencodable
TagOfAnotherSchemaRefused ==
    /\ pc = "encoded"
    /\ inmsg.RecordType = "sip"
    /\ inmsg.RecordTag = TagTest
    /\ DOMAIN inmsg.Fields = {"ni", "anr"}
    /\ enc.err = "TagMismatch"
    /\ enc.nilraw


\* "0123456789ABCDEF"
UpperHexDigits == <<48, 49, 50, 51, 52, 53, 54, 55, 56, 57, 65, 66, 67, 68, 69, 70>>

\* four uppercase hex digits of n
Hex4(n) ==
    << UpperHexDigits[((n \div 4096) % 16) + 1], UpperHexDigits[((n \div 256) % 16) + 1],
       UpperHexDigits[((n \div 16) % 16) + 1], UpperHexDigits[(n % 16) + 1] >>

\* the wire text of a typed value: decimal digits of an integer, 1 or 0 of
\* a bool, the bytes of a string or of a []byte
WireText(value) ==
    CASE value.k \in {"int8", "int16", "int32", "int64"} ->
           (IF value.neg THEN <<45>> ELSE <<>>) \o value.v
      [] value.k = "bool" -> (IF value.v = <<1>> THEN <<49>> ELSE <<48>>)
      [] OTHER -> value.v

\* a fixed-length tag: four hex digits, the decimal length, a space, data
FixedTagBytes(id, data) ==
    ((Hex4(id) \o DecDigits(Len(data))) \o << SP >>) \o data

RECURSIVE PresentFieldTags(_, _)
\* the fixed-length tags of the fields of fs that inmsg has a non-nil value
\* for, in the order of fs
PresentFieldTags(fs, i) ==
    IF i > Len(fs) THEN <<>>
    ELSE (IF MissingOrNil(fs[i]) THEN <<>>
          ELSE FixedTagBytes(fs[i].SmsgTag % 32768, WireText(inmsg.Fields[fs[i].Name])))
         \o PresentFieldTags(fs, i + 1)

\* C11: the output of a successful Encode is the variable-length constructor
\* header of the record tag (four hex digits of tag|0x8000 and a space), one
\* fixed-length tag per field with a non-nil value in schema declaration
\* order, then the terminator 00000 and a space and one newline.
EncodeOutputLayout ==
    (pc # "start" /\ enc.err = "none") =>
      /\ ~enc.nilraw
      /\ enc.raw = ((Hex4((inmsg.RecordTag % 32768) + 32768) \o << SP >>)
                    \o PresentFieldTags(SchemaOfName(inmsg.RecordType).Fields, 1))
                   \o <<48, 48, 48, 48, 48, 32, 10>>

\* an Encode that wrote the tags of both fields of sip
BothFieldsEncoded ==
    /\ pc = "encoded"
    /\ enc.err = "none"
    /\ inmsg.RecordType = "sip"
    /\ DOMAIN inmsg.Fields = {"ni", "anr"}
    /\ \A i \in 1..2 : ~MissingOrNil(SchemaOfName("sip").Fields[i])
    /\ SchemaOfName("sip").Fields[1].SmsgTag # SchemaOfName("sip").Fields[2].SmsgTag
    /\ Len(enc.raw) > 12 + 7 + 7

(***************************************************************************)
(* Properties of the frame reader (SpecReader).                            *)
(***************************************************************************)
\* "\r\n"
CRLF == << CR, LF >>

\* l ends with the bytes e
EndsWith(l, e) ==
    Len(l) >= Len(e) /\ SubSeq(l, Len(l) - Len(e) + 1, Len(l)) = e

\* l with its line ending removed: without the last two bytes when it ends
\* in "\r\n", without the last byte when it ends in '\n' alone, else as is
WithoutLineEnding(l) ==
    IF EndsWith(l, CRLF) THEN SliceTo(l, Len(l) - 2)
    ELSE IF EndsWith(l, << LF >>) THEN SliceTo(l, Len(l) - 1)
    ELSE l

\* C12: ReadRawSMsg returns each line with its line ending removed, both
\* bytes of a "\r\n", the one byte of a '\n' alone, and no other byte.
LineEndingRemoved ==
    \A i \in 1..Len(reads) :
      Len(reads[i].l) > 0 => reads[i].data = WithoutLineEnding(reads[i].l)

\* for the lines that end in '\n' with no '\r' before it, and the last
\* bytes of a stream that do not end in '\r': holds
LineEndingRemovedWithoutCR ==
    \A i \in 1..Len(reads) :
      (Len(reads[i].l) > 0 /\ reads[i].l[Len(reads[i].l)] # CR
        /\ ~EndsWith(reads[i].l, CRLF))
        => reads[i].data = WithoutLineEnding(reads[i].l)

\* C13: when the stream ends after one or more bytes with no newline after
\* them, the call that reads them returns them as a frame with a nil error,
\* and the next call reads zero bytes and returns EOS.
UnterminatedLastLine ==
    \A i \in 1..Len(reads) :
      (Len(reads[i].l) > 0 /\ reads[i].l[Len(reads[i].l)] # LF)
        => /\ reads[i].err = "none"
           /\ reads[i].data = reads[i].l
           /\ \A j \in 1..(i - 1) : reads[j].err = "none"
           /\ i < Len(reads) =>
                /\ reads[i + 1].err = "EOS"
                /\ reads[i + 1].l = <<>>
                /\ reads[i + 1].data = <<>>

\* the same, the frame being the bytes less a last '\r': holds
UnterminatedLastLineThenEOS ==
    \A i \in 1..Len(reads) :
      (Len(reads[i].l) > 0 /\ reads[i].l[Len(reads[i].l)] # LF)
        => /\ reads[i].err = "none"
           /\ reads[i].data = StripLast(reads[i].l, CR)
           /\ \A j \in 1..(i - 1) : reads[j].err = "none"
           /\ i < Len(reads) =>
                /\ reads[i + 1].err = "EOS"
                /\ reads[i + 1].l = <<>>
                /\ reads[i + 1].data = <<>>

(***************************************************************************)
(* Properties of the reader with a size limit (SpecLimitedReader).         *)
(***************************************************************************)
\* the first line of s, its newline included, or all of s when it has none
FirstLine(s) ==
    IF \E k \in 1..Len(s) : s[k] = LF
      THEN SubSeq(s, 1, CHOOSE k \in 1..Len(s) :
                          s[k] = LF /\ \A j \in 1..(k - 1) : s[j] # LF)
      ELSE s

\* C14: the reader enforces MaxMsgSize: a line whose length, newline
\* included, is at most MaxMsgSize is returned normally, a longer line gives
\* a MessageTooLargeError whose MaxSize is the configured limit and whose
\* Size is the offending size, above the limit and within the line.
MaxMsgSizeEnforced ==
    \A i \in 1..Len(reads) :
      LET line == FirstLine(reads[i].from)
      IN  /\ (Len(line) > 0 /\ Len(line) <= maxMsgSize)
               => /\ reads[i].err = "none"
                  /\ reads[i].l = line
                  /\ Len(reads[i].data) <= Len(line)
                  /\ reads[i].data = SubSeq(line, 1, Len(reads[i].data))
          /\ Len(line) > maxMsgSize
               => /\ reads[i].err = "MessageTooLargeError"
                  /\ reads[i].maxSize = maxMsgSize
                  /\ reads[i].size > maxMsgSize
                  /\ reads[i].size <= Len(line)
          /\ reads[i].err = "MessageTooLargeError" => Len(line) > maxMsgSize

\* a reader that returned a line exactly at its limit and then refused a
\* longer one
AtLimitReadThenTooLarge ==
    /\ Len(reads) >= 2
    /\ Len(reads[1].l) = maxMsgSize
    /\ reads[1].err = "none"
    /\ reads[2].err = "MessageTooLargeError"
    /\ reads[2].maxSize = maxMsgSize

(***************************************************************************)
(* Properties of the builder (SpecBuilder).                                *)
(***************************************************************************)
\* a builder call was just made: the call, with the buffer before and after
LastCall == calls'[Len(calls')]

BuilderCalled == Len(calls') = Len(calls) + 1

\* data with every CR replaced by backslash r and every LF by backslash n
Escaped(data) ==
    LET piece(b) == IF b = CR THEN <<92, 114>> ELSE IF b = LF THEN <<92, 110>> ELSE << b >>
        F[k \in 0..Len(data)] == IF k = 0 THEN <<>> ELSE F[k - 1] \o piece(data[k])
    IN  F[Len(data)]

\* C15: AddSafe(tag, data) appends exactly the bytes that Add(tag, e)
\* appends, e being data with CR and LF escaped: the length written is
\* len(e) and the appended bytes hold no raw CR or LF.
AddSafeIsAddOfEscaped ==
    [][(BuilderCalled /\ LastCall.op = "AddSafe") =>
         /\ buf' = Add(buf, LastCall.tag, Escaped(LastCall.data))
         /\ \A k \in (Len(buf) + 1)..Len(buf') : buf'[k] \notin {CR, LF}]_vars

\* the same for the tags without bit 0x8000: holds
AddSafeIsAddOfEscapedBelowConstructor ==
    [][(BuilderCalled /\ LastCall.op = "AddSafe" /\ LastCall.tag < 32768) =>
         /\ buf' = Add(buf, LastCall.tag, Escaped(LastCall.data))
         /\ \A k \in (Len(buf) + 1)..Len(buf') : buf'[k] \notin {CR, LF}]_vars

\* for every tag, AddSafe appends the tag id as given, the length of e, a
\* space and e: holds
AddSafeAppendsEscaped ==
    [][(BuilderCalled /\ LastCall.op = "AddSafe") =>
         /\ buf' = buf \o FixedTagBytes(LastCall.tag, Escaped(LastCall.data))
         /\ \A k \in (Len(buf) + 1)..Len(buf') : buf'[k] \notin {CR, LF}]_vars

\* the buffer was built by the single call AddRaw(tag, inner) and is being
\* iterated
SingleAddRaw ==
    /\ pc = "iter"
    /\ Len(calls) = 1
    /\ calls[1].op = "AddRaw"

\* the tag a call Add(tag, data) is parsed back as
AddedTag(a) ==
    [Tag |-> a.tag % 32768, Constructor |-> FALSE, VarLen |-> FALSE, Data |-> a.data]

\* C16: AddRaw(tag, inner), inner built only with Add calls, then NextTag
\* yields a fixed-length constructor tag with id = tag & 0x7FFF whose Data is
\* inner's bytes, followed by EOS, and iterating its SubTags yields exactly
\* inner's tags in the order they were added, then EOS.
AddRawThenSubTags ==
    SingleAddRaw =>
      /\ (it.depth = 0 /\ res.err = "none") =>
           /\ ntags = 1
           /\ res.t.Constructor
           /\ ~res.t.VarLen
           /\ res.t.Tag = calls[1].tag % 32768
           /\ res.t.Data = calls[1].data
           /\ it.data = <<>>
      /\ (it.depth = 0 /\ res.err \notin {"none", "init"}) =>
           res.err = "EOS" /\ ntags = 1
      /\ (it.depth = 1 /\ res.err = "none") =>
           /\ ntags <= Len(calls[1].inner)
           /\ res.t = AddedTag(calls[1].inner[ntags])
      /\ (it.depth = 1 /\ res.err \notin {"none", "init"}) =>
           res.err = "EOS" /\ ntags = Len(calls[1].inner)

\* the sub-tags of an AddRaw of two Add calls were iterated to their EOS
TwoSubTagsIterated ==
    /\ SingleAddRaw
    /\ it.depth = 1
    /\ Len(calls[1].inner) = 2
    /\ calls[1].inner[1] # calls[1].inner[2]
    /\ res.err = "EOS"
    /\ ntags = 2

(***************************************************************************)
(* Properties of the scan loop of Decode (SpecSerde).                      *)
(***************************************************************************)

\* the frames with a terminator, each with the record cut before it
TerminatedFrames ==
    { [frame |-> ((AddVariableTag(<<>>, TagSip) \o AddTags(<<>>, ts)) \o FrameTerminator) \o tail,
       head |-> AddVariableTag(<<>>, TagSip) \o AddTags(<<>>, ts)] :
        ts \in AllSeqs(FrameTags, 1), tail \in AfterTerminator }

\* C17: the nested scan of Decode stops at the first tag whose id is 0: what
\* follows that tag in the record, tags or bytes that are no tag, never
\* contributes, so Decode returns what it returns for the record cut before
\* the terminator.
TerminatorStopsScan ==
    pc # "start" =>
      \A tf \in TerminatedFrames :
        frame = tf.frame => dec = Decode(reg.decoder, tf.head)

\* a frame with a value for ni behind the terminator was decoded without
\* error and ni became null
TagBehindTerminatorIgnored ==
    /\ pc = "decoded"
    /\ dec.err = "none"
    /\ \E ts \in AllSeqs(FrameTags, 1), p \in FramePayloads \ {<<>>} :
         /\ frame = ((AddVariableTag(<<>>, TagSip) \o AddTags(<<>>, ts)) \o FrameTerminator)
                      \o Add(<<>>, TagNi, p)
         /\ \A k \in 1..Len(ts) : ts[k].Tag = TagAnr
         /\ ts # <<>>
         /\ dec.msg.Fields["ni"] = NilVal
         /\ dec.msg.Fields["anr"] # NilVal

(***************************************************************************)
(* Properties of the buffer under the builder calls (SpecBuilder).         *)
(***************************************************************************)

\* s is a prefix of t
IsPrefix(s, t) ==
    Len(s) <= Len(t) /\ SubSeq(t, 1, Len(s)) = s

\* C18: the buffer is append-only: after every call of Add, AddSafe,
\* AddVariableTag, AddRaw, AddTag, AddTags or Terminate the bytes present
\* before the call are an unchanged prefix of the buffer, and Add(tag, data)
\* appends exactly the four uppercase hex digits of tag & 0x7FFF, the decimal
\* length of data, one space and data.
BufferAppendOnly ==
    [][/\ IsPrefix(buf, buf')
       /\ (BuilderCalled /\ LastCall.op = "Add") =>
            buf' = buf \o FixedTagBytes(LastCall.tag % 32768, LastCall.data)]_vars

\* Add was called with a tag that has the constructor bit on a buffer an
\* earlier call had written to
AddAfterAnotherCall ==
    /\ Len(calls) = 2
    /\ calls[1].op \in {"AddSafe", "AddVariableTag", "AddRaw", "AddTag", "AddTags", "Terminate"}
    /\ calls[2].op = "Add"
    /\ calls[2].tag >= 32768
    /\ calls[2].data # <<>>
    /\ Len(buf) > Len(FixedTagBytes(calls[2].tag % 32768, calls[2].data))

(***************************************************************************)
(* Properties of integer decoding (SpecIntWidth).                          *)
(***************************************************************************)
\* the numeral of 2 * ds: a digit receives a carry when the digit to its
\* right is 5 or more
DoubleNum(ds) ==
    LET carry(i) == IF i <= Len(ds) /\ ds[i] >= 53 THEN 1 ELSE 0
        low == [i \in 1..Len(ds) |-> 48 + ((2 * (ds[i] - 48) + carry(i + 1)) % 10)]
    IN  (IF carry(1) = 1 THEN <<49>> ELSE <<>>) \o low

RECURSIVE Doubled(_, _)
\* ds doubled n times (a doubled numeral is never the shorter one)
Doubled(ds, n) ==
    LET d == DoubleNum(ds)
    IN  IF n = 0 THEN ds
        ELSE IF Len(d) < Len(ds) THEN <<>>
        ELSE Doubled(d, n - 1)

\* the numeral of 2^n
PowerOfTwo(n) == Doubled(<<49>>, n)

\* sign and magnitude of a signed decimal text
TextNegative(text) == text[1] = 45

TextMagnitude(text) ==
    Canon(IF text[1] \in {43, 45} THEN Tail(text) ELSE text)

\* the value of text lies in [-2^(w-1), 2^(w-1) - 1]
InWidth(text, w) ==
    \/ NumLT(TextMagnitude(text), PowerOfTwo(w - 1))
    \/ TextNegative(text) /\ TextMagnitude(text) = PowerOfTwo(w - 1)

\* the integer of width w that text denotes
IntOfWidth(text, w) ==
    Val(IntTypeOfWidth(w), TextNegative(text) /\ TextMagnitude(text) # <<48>>,
        TextMagnitude(text))

\* the width of the field number of the registered schema
DeclaredWidth ==
    CHOOSE w \in IntWidths : reg.schemas[1].Fields[1].Type = IntTypeOfWidth(w)

ResultAlone(c) ==
    IF c.op = "Decode" THEN Decode(reg.decoder, c.frame)
    ELSE Encode(reg.encoder, c.msg)

\* every call that has returned returned what it returns alone
ReturnedAsAlone ==
    \A p \in Callers :
      callers[p].pc = "done" => callers[p].result = ResultAlone(callers[p])

\* the decoder and the encoder are what NewSchemaDecoder and NewSchemaEncoder
\* made of the schemas
TablesAsConstructed ==
    /\ reg.decoder = NewSchemaDecoder(reg.schemas)
    /\ reg.encoder = NewSchemaEncoder(reg.schemas)

\* C19: Decode and Encode never mutate the decoder or the encoder: under
\* every interleaving of concurrent calls on distinct messages the lookup
\* tables (coercers, schemas) stay as construction made them, and each call
\* returns the result it returns when run alone.
ConcurrentCallsIsolated ==
    TablesAsConstructed /\ ReturnedAsAlone

\* two Decode calls of different frames, interleaved, have both returned a
\* message without error
OverlappedDecodesReturned ==
    /\ pc = "run"
    /\ \A p \in Callers :
         /\ callers[p].op = "Decode"
         /\ callers[p].pc = "done"
         /\ callers[p].overlapped
         /\ callers[p].result.err = "none"
    /\ callers[1].frame # callers[2].frame
    /\ callers[1].result.msg # callers[2].result.msg

(***************************************************************************)
(* Properties of enum fields (SpecEnum).                                   *)
(***************************************************************************)
\* the schema sip of the scenario
EnumSchema == reg.schemas[1]

\* Decode was given a frame whose tag of field f is not empty and holds no
\* declared value
DecodedBadEnum(f) ==
    /\ pc # "start" /\ pc # "built"
    /\ f.Type = "enum"
    /\ NestedTagsOfFrame.err = "none"
    /\ f.SmsgTag \in DOMAIN NestedTagsOfFrame.tags
    /\ NestedTagsOfFrame.tags[f.SmsgTag] # <<>>
    /\ NestedTagsOfFrame.tags[f.SmsgTag] \notin f.EnumValues

\* Encode was given a message whose value of field f is a string that is no
\* declared value
EncodedBadEnum(f) ==
    /\ enc # NoEnc
    /\ f.Type = "enum"
    /\ f.Name \in DOMAIN inmsg.Fields
    /\ inmsg.Fields[f.Name].k = "string"
    /\ inmsg.Fields[f.Name].v \notin f.EnumValues

\* C21: a value outside the declared set of an enum field never crosses the
\* codec.  Decode of a non-empty enum tag that is not exactly a declared
\* value fails and returns no value for the field, with the conversion error
\* naming the field when no field before it failed; Encode of a string that
\* is no declared value fails and returns no frame, with the
\* invalid-enum-value error naming the field when no field before it failed,
\* whether the message was built by hand or came from Decode.
EnumValuesValidated ==
    \A i \in 1..Len(EnumSchema.Fields) :
      LET f == EnumSchema.Fields[i]
      IN  /\ DecodedBadEnum(f) =>
                /\ dec.err # "none"
                /\ f.Name \notin DOMAIN dec.msg.Fields
                /\ (i = 1 \/ EnumSchema.Fields[1].Name \in DOMAIN dec.msg.Fields)
                     => dec.err = "ConversionError" /\ dec.errField = f.Name
          /\ EncodedBadEnum(f) =>
                /\ enc.err # "none"
                /\ enc.nilraw
                /\ (i = 1 \/ enc.errField # EnumSchema.Fields[1].Name)
                     => enc.err = "InvalidEnum" /\ enc.errField = f.Name

\* a frame with a declared value was decoded, the caller replaced the value
\* by one that is not declared, and Encode refused the message
ChangedEnumRefused ==
    /\ pc = "encoded"
    /\ dec.err = "none"
    /\ EnumSchema.Fields[1].Type = "enum"
    /\ dec.msg.Fields["ni"] = Val("string", FALSE, <<65>>)
    /\ inmsg.Fields["ni"] = Val("string", FALSE, <<65, 66>>)
    /\ enc.err = "InvalidEnum"
    /\ enc.errField = "ni"

(***************************************************************************)
(* Properties of Schema.SetField (SpecSchema).                             *)
(***************************************************************************)
\* no two fields of fs have the same name
UniqueNames(fs) ==
    \A i, j \in 1..Len(fs) : fs[i].Name = fs[j].Name => i = j

\* the Field most recently given to SetField under name
LastSet(name) ==
    calls[CHOOSE k \in 1..Len(calls) :
            /\ calls[k].Name = name
            /\ \A m \in (k + 1)..Len(calls) : calls[m].Name # name]

\* every name given to SetField is contained and found as set last
SetFieldsFound ==
    \A k \in 1..Len(calls) :
      /\ Contains(schemaFields, calls[k].Name)
      /\ GetField(schemaFields, calls[k].Name).err = "none"
      /\ GetField(schemaFields, calls[k].Name).field = LastSet(calls[k].Name)

\* SetField(field) was just called
SetFieldCalled(field) ==
    pc = "schema" /\ calls' = Append(calls, field)

\* C22: SetField is add-or-replace by name: a field of that name is replaced
\* in place, the number of fields and every other field staying as they
\* were, otherwise the field is appended; so on a schema whose names were
\* unique they stay unique, Contains(name) is true and GetField(name) gives
\* the field set last under that name.
SetFieldAddsOrReplaces ==
    [][\A field \in SetFieldArgs :
         SetFieldCalled(field) =>
           /\ IF \E i \in 1..Len(schemaFields) : schemaFields[i].Name = field.Name
                THEN /\ Len(schemaFields') = Len(schemaFields)
                     /\ \A i \in 1..Len(schemaFields) :
                          schemaFields'[i] = IF schemaFields[i].Name = field.Name
                                               THEN field ELSE schemaFields[i]
                ELSE schemaFields' = schemaFields \o << field >>
           /\ UniqueNames(schemaFields')
           /\ SetFieldsFound']_vars

\* name was set twice and email once on the schema of name and age: three
\* fields, name as set last
ReplacedAndAppended ==
    /\ pc = "schema"
    /\ Len(calls) = 3
    /\ calls[1].Name = "name" /\ calls[2].Name = "email" /\ calls[3].Name = "name"
    /\ calls[1] # calls[3]
    /\ Len(schemaFields) = 3
    /\ schemaFields[1] = calls[3]
    /\ schemaFields[2].Name = "age"
    /\ schemaFields[3] = calls[2]

(***************************************************************************)
(* Properties of NewSchemaEncoder (SpecEncode).                            *)
(***************************************************************************)
\* the record type or a field of a schema of the list has no smsg_tag
MissingSmsgTag(schemas) ==
    \E i \in 1..Len(schemas) :
      \/ ~schemas[i].RecordType.HasTag
      \/ \E j \in 1..Len(schemas[i].Fields) : ~schemas[i].Fields[j].HasTag

\* C23: NewSchemaEncoder returns an error and no encoder whenever the record
\* type or any field of a schema of the list has no smsg_tag in its metadata.
EncoderRefusesMissingSmsgTag ==
    MissingSmsgTag(reg.schemas) => reg.encoder.err # "none"

\* a missing smsg_tag of a record type is refused: holds
EncoderRefusesUntaggedRecordType ==
    (\E i \in 1..Len(reg.schemas) : ~reg.schemas[i].RecordType.HasTag)
      => reg.encoder.err # "none"

(***************************************************************************)
(* Properties of duplicate tags under Decode (SpecSerde).                  *)
(***************************************************************************)
\* the frames with two tags of one id, each with the frame of the second tag
\* alone
DuplicateTagFrames ==
    { [frame |-> (AddVariableTag(<<>>, TagSip) \o AddTags(<<>>, ts)) \o term,
       last |-> (AddVariableTag(<<>>, TagSip) \o AddTags(<<>>, << ts[2] >>)) \o term,
       ts |-> ts] :
        ts \in { x \in AllSeqs(FrameTags, 2) : Len(x) = 2 /\ x[1].Tag = x[2].Tag },
        term \in { <<>>, FrameTerminator } }

\* C24: when the nested data of the record tag holds several tags of one id
\* before the terminator, Decode uses the data of the last of them for the
\* field bound to that id, also when the last one is empty: it returns what it
\* returns for the frame that holds the last one only.
LastDuplicateWins ==
    pc # "start" =>
      \A d \in DuplicateTagFrames :
        frame = d.frame => dec = Decode(reg.decoder, d.last)

\* ni was given as "+5" and then as an empty tag, and the nullable int8 ni
\* decoded to null
EmptyLastDuplicateDecoded ==
    /\ pc = "decoded"
    /\ dec.err = "none"
    /\ frame = AddTags(AddVariableTag(<<>>, TagSip),
                 << [Tag |-> TagNi, Constructor |-> FALSE, VarLen |-> FALSE, Data |-> <<43, 53>>],
                    [Tag |-> TagNi, Constructor |-> FALSE, VarLen |-> FALSE, Data |-> <<>>] >>)
    /\ reg.schemas[1].Fields[1].Type = "int8"
    /\ reg.schemas[1].Fields[1].SmsgTag = TagNi
    /\ dec.msg.Fields["ni"] = NilVal

(***************************************************************************)
(* Properties of the steps of the iterator (SpecIter).                     *)
(***************************************************************************)
\* a hex digit, upper or lower case
IsHexDigit(b) == b \in (48..57) \cup (65..70) \cup (97..102)

\* the scope starts with four hex digits and a space
IdThenSpace(d) ==
    /\ Len(d) >= 5
    /\ \A k \in 1..4 : IsHexDigit(d[k])
    /\ d[5] = SP

\* NextTag was just called on it
NextTagCalled == pc = "iter" /\ res'.err # "init" /\ res'.input = it.data

\* SubTags was just called on the tag last returned
SubTagsCalled == pc = "iter" /\ res.err = "none" /\ res'.err = "init" /\ it'.depth = it.depth + 1

\* C25: when the byte after a four hex digit tag id is a space, NextTag
\* returns a tag with VarLen true whose Data is every byte of the scope after
\* that space, and the scope is exhausted: the next NextTag on the iterator
\* returns EOS, and the contents of the tag are what SubTags iterates.
VariableLengthTagTakesScope ==
    [][/\ (NextTagCalled /\ IdThenSpace(it.data)) =>
            /\ res'.err = "none"
            /\ res'.t.VarLen
            /\ res'.t.Data = SubSeq(it.data, 6, Len(it.data))
            /\ it'.data = <<>>
       /\ (NextTagCalled /\ res.err = "none" /\ res.t.VarLen) =>
            /\ res'.err = "EOS"
            /\ it'.data = <<>>
       /\ (SubTagsCalled /\ res.t.VarLen) => it'.data = res.t.Data]_vars

\* a variable-length tag with data was returned and the next NextTag gave EOS
EOSAfterVariableLengthTag ==
    /\ pc = "iter"
    /\ it.depth = 0
    /\ ntags = 1
    /\ res.err = "EOS"
    /\ IdThenSpace(buf)
    /\ Len(buf) > 5
    /\ res.input = <<>>

\* C26: when fewer than four bytes remain in the scope of an iterator,
\* whatever they are, NextTag returns EOS, no parse or short-buffer error, and
\* leaves the cursor where it was, so that every later call returns EOS too.
ShortScopeIsEOS ==
    [][(NextTagCalled /\ Len(it.data) < 4) =>
         /\ res'.err = "EOS"
         /\ it' = it
         /\ ntags' = ntags]_vars

\* NextTag returned EOS on a scope of one to three bytes that are no hex
\* digits, after it had returned a tag
EOSOnShortRest ==
    /\ pc = "iter"
    /\ res.err = "EOS"
    /\ ntags >= 1
    /\ Len(it.data) \in 1..3
    /\ \E k \in 1..Len(it.data) : ~IsHexDigit(it.data[k])
    /\ res.input = it.data

\* the stream the reader was constructed on
StreamGiven == IF reads = <<>> THEN stream ELSE reads[1].from

\* s is a sequence of lines that each end in '\n'
NewlineTerminated(s) == s = <<>> \/ s[Len(s)] = LF

\* the lines of a newline-terminated s, each without its '\n'
RECURSIVE SplitLines(_)
SplitLines(s) ==
    IF s = <<>> THEN <<>>
    ELSE LET i == IndexByte(s, LF)
         IN  <<SliceTo(s, i)>> \o SplitLines(SliceFrom(s, i + 1))

TagBytesByVarLen(t) ==
    IF t.VarLen
      THEN (Hex4(OrConstructor(t.Tag)) \o << SP >>) \o t.Data
      ELSE Add(<<>>, t.Tag, t.Data)

\* the wire bytes of the Tags ts, one after the other
TagsBytesByVarLen(ts) ==
    LET F[k \in 0..Len(ts)] == IF k = 0 THEN <<>> ELSE F[k - 1] \o TagBytesByVarLen(ts[k])
    IN  F[Len(ts)]

\* C28: AddTag emits a Tag by its VarLen flag alone: with VarLen a
\* variable-length constructor header, id | 0x8000 and no length, then the
\* Data, whatever the Constructor field; without VarLen the fixed-length tag
\* that Add(t.Tag, t.Data) emits.  AddTags emits the Tags in slice order.
AddTagByVarLenOnly ==
    [][/\ (BuilderCalled /\ LastCall.op = "AddTag") =>
            /\ buf' = buf \o TagBytesByVarLen(LastCall.t)
            /\ ~LastCall.t.VarLen => buf' = Add(buf, LastCall.t.Tag, LastCall.t.Data)
       /\ (BuilderCalled /\ LastCall.op = "AddTags") =>
            buf' = buf \o TagsBytesByVarLen(LastCall.ts)]_vars

\* AddTag was called with a Tag that has VarLen but no Constructor and then
\* AddTags with a fixed-length Tag that has Constructor and a second Tag
VarLenWithoutConstructorAdded ==
    /\ Len(calls) = 2
    /\ calls[1].op = "AddTag"
    /\ calls[1].t.VarLen /\ ~calls[1].t.Constructor
    /\ SubSeq(buf, 1, 5) = <<57, 48, 49, 57, SP>>
    /\ calls[2].op = "AddTags"
    /\ Len(calls[2].ts) = 2
    /\ calls[2].ts[1].Constructor /\ ~calls[2].ts[1].VarLen

(***************************************************************************)
(* Properties of encoded messages on a stream (SpecStream).                *)
(***************************************************************************)
\* how many bytes of d are '\n'
NewlineCount(d) == Cardinality({ k \in 1..Len(d) : d[k] = LF })

\* the frame d holds one '\n', as its last byte
SingleStreamFrame(d) ==
    Len(d) > 0 /\ d[Len(d)] = LF /\ NewlineCount(d) = 1

\* read i returned the frame written by call i, and it decodes to the
\* message that was encoded
ReadIsWritten(i) ==
    /\ reads[i].err = "none"
    /\ reads[i].l = calls[i].data
    /\ LET d == Decode(reg.decoder, reads[i].data)
       IN  /\ d.err = "none"
           /\ d.msg.RecordType = calls[i].msg.RecordType
           /\ \A n \in DOMAIN calls[i].msg.Fields :
                /\ n \in DOMAIN d.msg.Fields
                /\ d.msg.Fields[n] = calls[i].msg.Fields[n]

\* C29: every frame a successful Encode produced holds exactly one newline,
\* its last byte, so the reader returns the frames written, as many and in
\* order, each decoding to the fields encoded, and EOS after them.
EncodedFrameIsOneStreamFrame ==
    /\ \A i \in 1..Len(calls) : SingleStreamFrame(calls[i].data)
    /\ \A i \in 1..Len(reads) :
         IF i <= Len(calls) THEN ReadIsWritten(i) ELSE reads[i].err = "EOS"

\* no value of a message written holds a '\n'
NoNewlineWritten ==
    \A i \in 1..Len(calls) :
      \A n \in DOMAIN calls[i].msg.Fields :
        \A k \in 1..Len(calls[i].msg.Fields[n].v) : calls[i].msg.Fields[n].v[k] # LF

\* the same for the messages whose values hold no newline: holds
EncodedFrameWithoutNewlineIsOneStreamFrame ==
    (pc \in {"write", "read"} /\ NoNewlineWritten) =>
        /\ \A i \in 1..Len(calls) : SingleStreamFrame(calls[i].data)
        /\ \A i \in 1..Len(reads) :
             IF i <= Len(calls) THEN ReadIsWritten(i) ELSE reads[i].err = "EOS"

\* two messages without newline were written and read back, then EOS
TwoFramesReadBack ==
    /\ pc = "read"
    /\ Len(calls) = 2
    /\ NoNewlineWritten
    /\ Len(reads) = 3
    /\ reads[3].err = "EOS"

(***************************************************************************)
(* Properties of the loop over an iterator (SpecLoop).                     *)
(***************************************************************************)
\* C30: iterating a finite buffer terminates.  Every NextTag that returns a
\* tag shrinks the scope, by six bytes or more for a fixed-length tag and to
\* nothing for a variable-length one, no more than len(buffer)/6 + 1 tags
\* are returned, and the loop reaches EOS or an error.
IterationTerminates ==
    /\ [][(NextTagCalled /\ res'.err = "none") =>
            /\ Len(it'.data) < Len(it.data)
            /\ ~res'.t.VarLen => Len(it'.data) + 6 <= Len(it.data)
            /\ res'.t.VarLen => it'.data = <<>>]_vars
    /\ [](ntags <= (Len(buf) \div 6) + 1)
    /\ (pc = "iter") ~> LoopEnded

\* the loop ended with EOS after a fixed-length and a variable-length tag,
\* as many as a buffer of that length can hold
LoopEndedAfterTwoTags ==
    /\ pc = "iter"
    /\ res.err = "EOS"
    /\ ntags = 2
    /\ ntags = (Len(buf) \div 6) + 1
    /\ it.data = <<>>

\* the same shrinking and the same bound in every NextTag step over the
\* exhaustive inputs of SpecIter, calls after an error included: holds
ReturnedTagShrinksScope ==
    [][/\ (NextTagCalled /\ res'.err = "none") =>
            /\ ~res'.t.VarLen => Len(it'.data) + 6 <= Len(it.data)
            /\ res'.t.VarLen => it'.data = <<>> /\ Len(it.data) >= 5
       /\ it'.depth = 0 => ntags' <= (Len(buf) \div 6) + 1]_vars

=============================================================================
